---------------------------- MODULE Spec2Model ----------------------------
(***************************************************************************)
(* Model of the filter evaluator of milli-core                             *)
(* (crates/milli-core/src/search/facet/filter.rs).                         *)
(*                                                                         *)
(* Strings are sequences of byte values, numbers are integers, a doc-id    *)
(* bitmap is a set of document ids.  A chain of n directly nested Not      *)
(* nodes is stored as one record with a repetition count n; every          *)
(* operator that walks the tree applies the Not step n times.              *)
(***************************************************************************)
EXTENDS Integers, Sequences, FiniteSets, TLC

VARIABLES
    documents,                    \* the documents of the index, by DocId
    filterable_attributes_rules,  \* ordered list of (pattern, features)
    fields_ids_map,               \* attribute names in FieldId order
    documents_ids,                \* bitmap of all live documents
    facet_id_f64_docids,          \* numeric facet store, level 0 groups
    facet_id_string_docids,       \* string facet store, level 0 groups
    null_faceted,                 \* FieldId -> docs whose value is null
    empty_faceted,                \* FieldId -> docs whose value is empty
    exists_faceted,               \* FieldId -> docs that have the field
    geo_rtree,                    \* the positions of the documents, if any
    call                          \* the last call made and what it returned

indexVars == <<documents, filterable_attributes_rules, fields_ids_map,
               documents_ids, facet_id_f64_docids, facet_id_string_docids,
               null_faceted, empty_faceted, exists_faceted, geo_rtree>>

vars == <<documents, filterable_attributes_rules, fields_ids_map,
          documents_ids, facet_id_f64_docids, facet_id_string_docids,
          null_faceted, empty_faceted, exists_faceted, geo_rtree, call>>

(***************************************************************************)
(* Program constants and bounds                                            *)
(***************************************************************************)
MAX_FILTER_DEPTH == 2000

\* number of equalities of the flat OR built by tests::filter_depth
FLAT_OR_WIDTH == 14361

\* stand-ins for f64::MAX and f64::MIN: beyond every number of the model
F64_MAX == 2147483647

F64_MIN == -2147483647

\* documents are added with ids 0 .. MaxDocs-1
MaxDocs == 2

(***************************************************************************)
(* Strings, tokens and numbers                                             *)
(***************************************************************************)
Min2(a, b) == IF a <= b THEN a ELSE b

Max2(a, b) == IF a >= b THEN a ELSE b

\* byte-wise lexicographic order of two strings (str / [u8] PartialOrd)
RECURSIVE StrLess(_, _)
StrLess(a, b) ==
    IF b = <<>> THEN FALSE
    ELSE IF a = <<>> THEN TRUE
    ELSE IF Head(a) < Head(b) THEN TRUE
    ELSE IF Head(a) > Head(b) THEN FALSE
    ELSE StrLess(Tail(a), Tail(b))

StrLeq(a, b) == a = b \/ StrLess(a, b)

IsPrefix(p, s) == Len(p) <= Len(s) /\ SubSeq(s, 1, Len(p)) = p

\* memmem Finder::find(...).is_some(): needle occurs in haystack
IsSubstring(needle, hay) ==
    \E i \in 0..(Len(hay) - Len(needle)) :
        SubSeq(hay, i + 1, i + Len(needle)) = needle

\* crate::normalize_facet: lower-cases the ASCII letters A-Z
normalize_facet(s) ==
    [i \in 1..Len(s) |-> IF s[i] \in 65..90 THEN s[i] + 32 ELSE s[i]]

IsDigit(c) == c \in 48..57

RECURSIVE DigitsValue(_)
DigitsValue(s) ==
    IF s = <<>> THEN 0
    ELSE 10 * DigitsValue(SubSeq(s, 1, Len(s) - 1)) + (s[Len(s)] - 48)

\* the part of a digit string before its ".0" ending, if it has one
WholePart(s) ==
    IF Len(s) >= 3 /\ s[Len(s) - 1] = 46 /\ s[Len(s)] = 48
    THEN SubSeq(s, 1, Len(s) - 2) ELSE s

\* Token::parse_finite_float: Some(number) for an optionally signed run of
\* digits, optionally ending in ".0"; None for every other string (not a
\* number, or "inf"/"NaN", which parse to a non-finite float).  Numbers are
\* whole: a string with another fraction is not among the inputs.
parse_finite_float(tok) ==
    LET neg  == Len(tok) >= 1 /\ tok[1] = 45
        body == WholePart(IF neg THEN Tail(tok) ELSE tok)
    IN IF Len(body) >= 1 /\ \A i \in 1..Len(body) : IsDigit(body[i])
       THEN [some |-> TRUE,
             num |-> IF neg THEN 0 - DigitsValue(body) ELSE DigitsValue(body)]
       ELSE [some |-> FALSE, num |-> 0]

\* the strings used as field values and as filter values
S1 == <<49>>

S2 == <<50>>

S3 == <<51>>

S10 == <<49, 48>>

Sa == <<97>>

SA == <<65>>

Sab == <<97, 98>>

Sinf == <<105, 110, 102>>

(***************************************************************************)
(* The index: documents, settings and the stores derived from them         *)
(***************************************************************************)
RESERVED_GEO_FIELD_NAME == "_geo"

\* the fields of a document, in the order they enter the fields-ids map
FieldOrder == <<"f", "g", "_geo.lat", "_geo.lng">>

FieldNames == {FieldOrder[i] : i \in 1..Len(FieldOrder)}

\* a field of a document: absent, null, empty ([]), or a set of values
Absent == [kind |-> "absent", numbers |-> {}, strings |-> {}]

Null == [kind |-> "null", numbers |-> {}, strings |-> {}]

Empty == [kind |-> "empty", numbers |-> {}, strings |-> {}]

Vals(ns, ss) == [kind |-> "values", numbers |-> ns, strings |-> ss]

\* a document: its fields f and g and the two coordinates of its _geo field
Doc(f, g, lat, lng) ==
    [n \in FieldNames |->
        CASE n = "f" -> f
          [] n = "g" -> g
          [] n = "_geo.lat" -> lat
          [] n = "_geo.lng" -> lng]

\* the documents that can be added
DocChoices ==
    { Doc(Vals({1}, {}),    Absent,          Absent, Absent),
      Doc(Vals({1, 3}, {}), Vals({2}, {}),   Absent, Absent),
      Doc(Vals({}, {SA}),   Vals({1}, {}),   Absent, Absent),
      Doc(Vals({2}, {Sab}), Null,            Absent, Absent),
      Doc(Empty,            Vals({}, {S2}),  Absent, Absent) }

\* a document with a position and nothing else
GeoDoc(lat, lng) == Doc(Absent, Absent, Vals({lat}, {}), Vals({lng}, {}))

\* FilterableAttributesFeatures: the feature set of a rule
Features(fl, eq, cmp, em, nu, ex) ==
    [filterable |-> fl, equality |-> eq, comparison |-> cmp,
     empty |-> em, null |-> nu, exists |-> ex]

AllFeatures == Features(TRUE, TRUE, TRUE, TRUE, TRUE, TRUE)

EqOnly == Features(TRUE, TRUE, FALSE, TRUE, TRUE, TRUE)

CmpOnly == Features(TRUE, FALSE, TRUE, TRUE, TRUE, TRUE)

NoUnary == Features(TRUE, TRUE, TRUE, FALSE, FALSE, FALSE)

NotFilterable == Features(FALSE, FALSE, FALSE, FALSE, FALSE, FALSE)

Rule(p, ft) == [pattern |-> p, features |-> ft]

\* the filterable-attribute settings that can be applied
RuleLists ==
    { <<>>,
      <<Rule("f", AllFeatures)>>,
      <<Rule("f", AllFeatures), Rule("g", AllFeatures)>>,
      <<Rule("f", AllFeatures), Rule("g", EqOnly)>>,
      <<Rule("f", CmpOnly), Rule("g", AllFeatures)>>,
      <<Rule("f", NoUnary), Rule("g", AllFeatures)>>,
      <<Rule("f", NotFilterable), Rule("f", AllFeatures), Rule("g", AllFeatures)>> }

is_filterable(features) == features.filterable

is_filterable_equality(features) == features.equality

is_filterable_comparison(features) == features.comparison

is_filterable_empty(features) == features.empty

is_filterable_null(features) == features.null

is_filterable_exists(features) == features.exists

\* the fields nested in a field
ChildrenOf(name) ==
    IF name = RESERVED_GEO_FIELD_NAME THEN {"_geo.lat", "_geo.lng"} ELSE {}

\* match_field_legacy: a pattern matches the field of its name and the fields
\* nested in it
match_field_legacy(pattern, field) ==
    pattern = field \/ field \in ChildrenOf(pattern)

\* matching_features: the first rule whose pattern matches the attribute,
\* with its (0-based) index
matching_features(attribute, rules) ==
    LET hits == {i \in 1..Len(rules) : match_field_legacy(rules[i].pattern, attribute)}
    IN IF hits = {} THEN [some |-> FALSE, rule_index |-> 0, features |-> NotFilterable]
       ELSE LET i == CHOOSE k \in hits : \A j \in hits : k <= j
            IN [some |-> TRUE, rule_index |-> i - 1, features |-> rules[i].features]

\* filtered_matching_patterns(rules, is_filterable): the patterns of the
\* rules that are filterable
filtered_matching_patterns(rules) ==
    {rules[i].pattern : i \in {k \in 1..Len(rules) : is_filterable(rules[k].features)}}

\* FieldsIdsMap::id and FieldsIdsMap::name; ids are 0-based
field_id_of(map, name) ==
    LET hits == {i \in 1..Len(map) : map[i] = name}
    IN IF hits = {} THEN [some |-> FALSE, id |-> 0]
       ELSE [some |-> TRUE, id |-> (CHOOSE i \in hits : TRUE) - 1]

field_name_of(map, id) == IF id + 1 \in 1..Len(map) THEN map[id + 1] ELSE ""

\* the names a document adds to the fields-ids map, in a fixed order
RECURSIVE AppendNew(_, _)
AppendNew(map, names) ==
    IF names = <<>> THEN map
    ELSE LET n == Head(names)
             present == \E i \in 1..Len(map) : map[i] = n
         IN AppendNew(IF present THEN map ELSE Append(map, n), Tail(names))

DocFieldNames(doc) ==
    SelectSeq(FieldOrder, LAMBDA n : doc[n].kind # "absent")

\* a field is faceted when its matching rule is filterable
IsFaceted(name, rules) ==
    LET m == matching_features(name, rules) IN m.some /\ is_filterable(m.features)

FacetedIds(map, rules) ==
    {i - 1 : i \in {k \in 1..Len(map) : IsFaceted(map[k], rules)}}

DocsOf(docs) == DOMAIN docs

\* level 0 of the numeric facet store: one group per (field, number), whose
\* bitmap is the exact set of documents holding that number in the field
BuildF64(docs, map, rules) ==
    LET vals(fid) == UNION {docs[d][map[fid + 1]].numbers : d \in DocsOf(docs)}
        keys == UNION {{<<fid, n>> : n \in vals(fid)} : fid \in FacetedIds(map, rules)}
    IN {[field_id |-> k[1], level |-> 0, left_bound |-> k[2], size |-> 1,
         bitmap |-> {d \in DocsOf(docs) : k[2] \in docs[d][map[k[1] + 1]].numbers}]
        : k \in keys}

\* level 0 of the string facet store: the left bound is the normalised string
BuildString(docs, map, rules) ==
    LET norm(d, fid) == {normalize_facet(s) : s \in docs[d][map[fid + 1]].strings}
        vals(fid) == UNION {norm(d, fid) : d \in DocsOf(docs)}
        keys == UNION {{<<fid, s>> : s \in vals(fid)} : fid \in FacetedIds(map, rules)}
    IN {[field_id |-> k[1], level |-> 0, left_bound |-> k[2], size |-> 1,
         bitmap |-> {d \in DocsOf(docs) : k[2] \in norm(d, k[1])}]
        : k \in keys}

BuildKind(docs, map, rules, kinds) ==
    [fid \in 0..(Len(map) - 1) |->
        IF fid \in FacetedIds(map, rules)
        THEN {d \in DocsOf(docs) : docs[d][map[fid + 1]].kind \in kinds}
        ELSE {}]

\* Index::is_geo_filtering_enabled: a filterable rule names the _geo field
is_geo_filtering_enabled(rules) ==
    \E i \in 1..Len(rules) :
        /\ rules[i].pattern = RESERVED_GEO_FIELD_NAME
        /\ is_filterable(rules[i].features)

NoRtree == [some |-> FALSE, points |-> {}]

\* Index::geo_rtree: one point per document that has a position, kept while
\* the _geo field is filterable; None when there is no such document
BuildRtree(docs, rules) ==
    LET points == UNION {{[docid |-> d, lat |-> la, lng |-> lo] :
                             la \in docs[d]["_geo.lat"].numbers,
                             lo \in docs[d]["_geo.lng"].numbers}
                         : d \in DocsOf(docs)}
    IN IF is_geo_filtering_enabled(rules) /\ points # {}
       THEN [some |-> TRUE, points |-> points]
       ELSE NoRtree

IndexIs(docs, rules, map) ==
    /\ documents' = docs
    /\ filterable_attributes_rules' = rules
    /\ fields_ids_map' = map
    /\ documents_ids' = DocsOf(docs)
    /\ facet_id_f64_docids' = BuildF64(docs, map, rules)
    /\ facet_id_string_docids' = BuildString(docs, map, rules)
    /\ null_faceted' = BuildKind(docs, map, rules, {"null"})
    /\ empty_faceted' = BuildKind(docs, map, rules, {"empty"})
    /\ exists_faceted' = BuildKind(docs, map, rules, {"null", "empty", "values"})
    /\ geo_rtree' = BuildRtree(docs, rules)

NoUniverse == [some |-> FALSE, set |-> {}]

SomeUniverse(u) == [some |-> TRUE, set |-> u]

NoCall == [op |-> "none", arg |-> <<>>, universe |-> NoUniverse, result |-> <<>>]

(***************************************************************************)
(* Filter conditions (the AST of crate::filter_parser)                     *)
(***************************************************************************)
Condition(fid, op) == [kind |-> "Condition", fid |-> fid, op |-> op]

In(fid, els) == [kind |-> "In", fid |-> fid, els |-> els]

\* _geoRadius(lat, lng, radius): point is <<lat, lng>>, all three are tokens
GeoLowerThan(point, radius) ==
    [kind |-> "GeoLowerThan", point |-> point, radius |-> radius]

\* _geoBoundingBox([lat, lng], [lat, lng]): top right, then bottom left
GeoBoundingBox(top_right_point, bottom_left_point) ==
    [kind |-> "GeoBoundingBox", top_right_point |-> top_right_point,
     bottom_left_point |-> bottom_left_point]

\* n directly nested Not nodes around child
NotN(n, child) == [kind |-> "Not", n |-> n, child |-> child]

Not(child) == NotN(1, child)

And(subfilters) == [kind |-> "And", subfilters |-> subfilters]

Or(subfilters) == [kind |-> "Or", subfilters |-> subfilters]

Equal(val) == [cond |-> "Equal", val |-> val]

NotEqual(val) == [cond |-> "NotEqual", val |-> val]

GreaterThan(val) == [cond |-> "GreaterThan", val |-> val]

GreaterThanOrEqual(val) == [cond |-> "GreaterThanOrEqual", val |-> val]

LowerThan(val) == [cond |-> "LowerThan", val |-> val]

LowerThanOrEqual(val) == [cond |-> "LowerThanOrEqual", val |-> val]

Between(from, to) == [cond |-> "Between", from |-> from, to |-> to]

IsNull == [cond |-> "Null"]

IsEmpty == [cond |-> "Empty"]

Exists == [cond |-> "Exists"]

Contains(word) == [cond |-> "Contains", word |-> word]

StartsWith(word) == [cond |-> "StartsWith", word |-> word]

\* Condition::operator(): the operator as written in a filter
operator_name(op) ==
    CASE op.cond = "Equal" -> "="
      [] op.cond = "NotEqual" -> "!="
      [] op.cond = "GreaterThan" -> ">"
      [] op.cond = "GreaterThanOrEqual" -> ">="
      [] op.cond = "LowerThan" -> "<"
      [] op.cond = "LowerThanOrEqual" -> "<="
      [] op.cond = "Between" -> "TO"
      [] op.cond = "Null" -> "IS NULL"
      [] op.cond = "Empty" -> "IS EMPTY"
      [] op.cond = "Exists" -> "EXISTS"
      [] op.cond = "Contains" -> "CONTAINS"
      [] op.cond = "StartsWith" -> "STARTS WITH"

\* FilterableAttributesFeatures::allowed_filter_operators
allowed_filter_operators(features) ==
    (IF is_filterable_equality(features) THEN {"=", "!=", "IN"} ELSE {})
    \cup (IF is_filterable_comparison(features) THEN {">", ">=", "<", "<=", "TO"} ELSE {})
    \cup (IF is_filterable_empty(features) THEN {"IS EMPTY"} ELSE {})
    \cup (IF is_filterable_null(features) THEN {"IS NULL"} ELSE {})
    \cup (IF is_filterable_exists(features) THEN {"EXISTS"} ELSE {})

(***************************************************************************)
(* Results and errors                                                      *)
(***************************************************************************)
NoError == [kind |-> "None"]

TooDeep == [kind |-> "TooDeep"]

InvalidFilter == [kind |-> "InvalidFilter"]

AttributeNotFilterable(attribute, patterns) ==
    [kind |-> "AttributeNotFilterable", attribute |-> attribute,
     filterable_patterns |-> patterns]

\* BadGeoError::Lat, ::Lng and ::BoundingBoxTopIsBelowBottom
BadGeoLat(lat) == [kind |-> "BadGeo", which |-> "Lat", lat |-> lat]

BadGeoLng(lng) == [kind |-> "BadGeo", which |-> "Lng", lng |-> lng]

BoundingBoxTopIsBelowBottom(top, bottom) ==
    [kind |-> "BadGeo", which |-> "BoundingBoxTopIsBelowBottom",
     top |-> top, bottom |-> bottom]

FilterOperatorNotAllowed(field, allowed, operator, rule_index) ==
    [kind |-> "FilterOperatorNotAllowed", field |-> field,
     allowed_operators |-> allowed, operator |-> operator,
     rule_index |-> rule_index]

\* Ok(bitmap) / Err(error), with the stores read on the way
Ok(bitmap, reads) ==
    [ok |-> TRUE, bitmap |-> bitmap, error |-> NoError, reads |-> reads]

Err(error, reads) ==
    [ok |-> FALSE, bitmap |-> {}, error |-> error, reads |-> reads]

FacetStores == {"facet_id_f64_docids", "facet_id_string_docids"}

DocsetStores == {"documents_ids", "null_faceted", "empty_faceted", "exists_faceted"}

(***************************************************************************)
(* Facet range scan                                                        *)
(***************************************************************************)
Included(v) == [bound |-> "Included", v |-> v]

Excluded(v) == [bound |-> "Excluded", v |-> v]

Unbounded == [bound |-> "Unbounded"]

\* the order of a bound type: numbers, or strings byte by byte
Lt(codec, a, b) == IF codec = "f64" THEN a < b ELSE StrLess(a, b)

Gt(codec, a, b) == Lt(codec, b, a)

Ge(codec, a, b) == ~Lt(codec, a, b)

\* RangeBounds::contains for a left bound of a key
InBounds(codec, left, right, x) ==
    /\ CASE left.bound = "Included" -> Ge(codec, x, left.v)
         [] left.bound = "Excluded" -> Gt(codec, x, left.v)
         [] left.bound = "Unbounded" -> TRUE
    /\ CASE right.bound = "Included" -> Ge(codec, right.v, x)
         [] right.bound = "Excluded" -> Gt(codec, right.v, x)
         [] right.bound = "Unbounded" -> TRUE

\* facet_range_search::find_docids_of_facet_within_bounds: the documents of
\* the level 0 groups of the field whose left bound lies within the bounds.
\* The universe only decides whether a group of a higher level is taken
\* whole or descended into; it does not change what is found.
find_docids_of_facet_within_bounds(db, codec, field_id, left, right, universe) ==
    UNION {g.bitmap : g \in {e \in db : /\ e.field_id = field_id
                                        /\ e.level = 0
                                        /\ InBounds(codec, left, right, e.left_bound)}}

\* the guard of explore_facet_levels: bounds that admit no value
ContradictoryBounds(codec, left, right) ==
    /\ left.bound # "Unbounded"
    /\ right.bound # "Unbounded"
    /\ IF left.bound = "Included" /\ right.bound = "Included"
       THEN Gt(codec, left.v, right.v)
       ELSE Ge(codec, left.v, right.v)

\* explore_facet_levels: what the scan adds to the output, and whether the
\* store was read
explore_facet_levels(db, codec, field_id, left, right, universe) ==
    IF ContradictoryBounds(codec, left, right)
    THEN [docids |-> {}, scanned |-> FALSE]
    ELSE [docids |-> find_docids_of_facet_within_bounds(db, codec, field_id,
                                                        left, right, universe),
          scanned |-> TRUE]

(***************************************************************************)
(* Filter::evaluate_operator                                               *)
(***************************************************************************)
ComparisonOps ==
    {"GreaterThan", "GreaterThanOrEqual", "LowerThan", "LowerThanOrEqual", "Between"}

\* generate_filter_error
generate_filter_error(field_id, operator, features, rule_index) ==
    FilterOperatorNotAllowed(field_name_of(fields_ids_map, field_id),
                             allowed_filter_operators(features),
                             operator_name(operator), rule_index)

\* the feature guards without the one of IS NULL
OperatorNotAllowed_without_null(operator, features) ==
    \/ operator.cond \in ComparisonOps /\ ~is_filterable_comparison(features)
    \/ operator.cond = "Empty" /\ ~is_filterable_empty(features)
    \/ operator.cond = "Exists" /\ ~is_filterable_exists(features)
    \/ operator.cond \in {"Equal", "NotEqual"} /\ ~is_filterable_equality(features)

\* the feature guards at the head of the match of evaluate_operator
OperatorNotAllowed(operator, features) ==
    \/ operator.cond \in ComparisonOps /\ ~is_filterable_comparison(features)
    \/ operator.cond = "Empty" /\ ~is_filterable_empty(features)
    \/ operator.cond = "Null" /\ ~is_filterable_null(features)
    \/ operator.cond = "Exists" /\ ~is_filterable_exists(features)
    \/ operator.cond \in {"Equal", "NotEqual"} /\ ~is_filterable_equality(features)

\* number_bounds with the left bound of TO excluded
number_bounds_excluded_left(operator) ==
    LET c == operator.cond
        one == parse_finite_float(IF c = "Between" THEN operator.from ELSE operator.val)
        two == IF c = "Between" THEN parse_finite_float(operator.to) ELSE one
    IN IF ~(one.some /\ two.some) THEN [some |-> FALSE]
       ELSE CASE c = "GreaterThan" ->
                   [some |-> TRUE, left |-> Excluded(one.num), right |-> Included(F64_MAX)]
              [] c = "GreaterThanOrEqual" ->
                   [some |-> TRUE, left |-> Included(one.num), right |-> Included(F64_MAX)]
              [] c = "LowerThan" ->
                   [some |-> TRUE, left |-> Included(F64_MIN), right |-> Excluded(one.num)]
              [] c = "LowerThanOrEqual" ->
                   [some |-> TRUE, left |-> Included(F64_MIN), right |-> Included(one.num)]
              [] c = "Between" ->
                   [some |-> TRUE, left |-> Excluded(one.num), right |-> Included(two.num)]

\* the numeric bounds of a range operator: None when a value is not a
\* finite float
number_bounds(operator) ==
    LET c == operator.cond
        one == parse_finite_float(IF c = "Between" THEN operator.from ELSE operator.val)
        two == IF c = "Between" THEN parse_finite_float(operator.to) ELSE one
    IN IF ~(one.some /\ two.some) THEN [some |-> FALSE]
       ELSE CASE c = "GreaterThan" ->
                   [some |-> TRUE, left |-> Excluded(one.num), right |-> Included(F64_MAX)]
              [] c = "GreaterThanOrEqual" ->
                   [some |-> TRUE, left |-> Included(one.num), right |-> Included(F64_MAX)]
              [] c = "LowerThan" ->
                   [some |-> TRUE, left |-> Included(F64_MIN), right |-> Excluded(one.num)]
              [] c = "LowerThanOrEqual" ->
                   [some |-> TRUE, left |-> Included(F64_MIN), right |-> Included(one.num)]
              [] c = "Between" ->
                   [some |-> TRUE, left |-> Included(one.num), right |-> Included(two.num)]

\* the string bounds of a range operator, on the raw value of the token
str_bounds(operator) ==
    CASE operator.cond = "GreaterThan" ->
           [left |-> Excluded(operator.val), right |-> Unbounded]
      [] operator.cond = "GreaterThanOrEqual" ->
           [left |-> Included(operator.val), right |-> Unbounded]
      [] operator.cond = "LowerThan" ->
           [left |-> Unbounded, right |-> Excluded(operator.val)]
      [] operator.cond = "LowerThanOrEqual" ->
           [left |-> Unbounded, right |-> Included(operator.val)]
      [] operator.cond = "Between" ->
           [left |-> Included(operator.from), right |-> Included(operator.to)]

\* range_docids that skips the string scan when there are number bounds
range_docids_numbers_first(field_id, universe, operator) ==
    LET nb == number_bounds(operator)
        sb == str_bounds(operator)
    IN IF nb.some
       THEN LET nums == explore_facet_levels(facet_id_f64_docids, "f64", field_id,
                                             nb.left, nb.right, universe)
            IN Ok(nums.docids,
                  IF nums.scanned THEN {"facet_id_f64_docids"} ELSE {})
       ELSE LET strs == explore_facet_levels(facet_id_string_docids, "string",
                                             field_id, sb.left, sb.right, universe)
            IN Ok(strs.docids,
                  IF strs.scanned THEN {"facet_id_string_docids"} ELSE {})

\* the two scans at the end of evaluate_operator
range_docids(field_id, universe, operator) ==
    LET nb == number_bounds(operator)
        sb == str_bounds(operator)
        nums == IF nb.some
                THEN explore_facet_levels(facet_id_f64_docids, "f64", field_id,
                                          nb.left, nb.right, universe)
                ELSE [docids |-> {}, scanned |-> FALSE]
        strs == explore_facet_levels(facet_id_string_docids, "string", field_id,
                                     sb.left, sb.right, universe)
    IN Ok(nums.docids \cup strs.docids,
          (IF nums.scanned THEN {"facet_id_f64_docids"} ELSE {})
          \cup (IF strs.scanned THEN {"facet_id_string_docids"} ELSE {}))

\* the bitmap of the level 0 group with this key, empty when there is none
get_level0(db, field_id, left_bound) ==
    UNION {e.bitmap : e \in {x \in db : /\ x.field_id = field_id
                                        /\ x.level = 0
                                        /\ x.left_bound = left_bound}}

\* equal_docids looking the raw value up in the string store
equal_docids_not_normalized(field_id, val) ==
    LET string_docids == get_level0(facet_id_string_docids, field_id, val)
        number == parse_finite_float(val)
        number_docids == IF number.some
                         THEN get_level0(facet_id_f64_docids, field_id, number.num)
                         ELSE {}
    IN Ok(string_docids \cup number_docids,
          {"facet_id_string_docids"}
          \cup (IF number.some THEN {"facet_id_f64_docids"} ELSE {}))

\* Condition::Equal
equal_docids(field_id, val) ==
    LET string_docids == get_level0(facet_id_string_docids, field_id,
                                    normalize_facet(val))
        number == parse_finite_float(val)
        number_docids == IF number.some
                         THEN get_level0(facet_id_f64_docids, field_id, number.num)
                         ELSE {}
    IN Ok(string_docids \cup number_docids,
          {"facet_id_string_docids"}
          \cup (IF number.some THEN {"facet_id_f64_docids"} ELSE {}))

\* Condition::Contains: the level 0 strings of the field that contain the
\* normalised word
contains_docids(field_id, word) ==
    LET value == normalize_facet(word)
    IN Ok(UNION {e.bitmap : e \in {x \in facet_id_string_docids :
                                      /\ x.field_id = field_id
                                      /\ x.level = 0
                                      /\ IsSubstring(value, x.left_bound)}},
          {"facet_id_string_docids"})

\* Condition::StartsWith: the level 0 strings of the field that start with
\* the normalised word
starts_with_docids(field_id, word) ==
    LET value == normalize_facet(word)
    IN Ok(UNION {e.bitmap : e \in {x \in facet_id_string_docids :
                                      /\ x.field_id = field_id
                                      /\ x.level = 0
                                      /\ IsPrefix(value, x.left_bound)}},
          {"facet_id_string_docids"})

\* not_equal_docids taking the complement within the documents that have
\* a value
not_equal_docids_among_valued(equal) ==
    IF ~equal.ok THEN equal
    ELSE Ok(UNION {e.bitmap : e \in facet_id_f64_docids \cup facet_id_string_docids}
               \ equal.bitmap,
            equal.reads \cup {"documents_ids"})

\* Condition::NotEqual, from the result of the Equal it evaluates
not_equal_docids(equal) ==
    IF ~equal.ok THEN equal
    ELSE Ok(documents_ids \ equal.bitmap, equal.reads \cup {"documents_ids"})

RECURSIVE evaluate_operator(_, _, _, _, _)
evaluate_operator(field_id, universe, operator, features, rule_index) ==
    IF OperatorNotAllowed(operator, features)
    THEN Err(generate_filter_error(field_id, operator, features, rule_index),
             {"fields_ids_map"})
    ELSE CASE operator.cond \in ComparisonOps ->
                range_docids(field_id, universe, operator)
           [] operator.cond = "Null" ->
                Ok(null_faceted[field_id], {"null_faceted"})
           [] operator.cond = "Empty" ->
                Ok(empty_faceted[field_id], {"empty_faceted"})
           [] operator.cond = "Exists" ->
                Ok(exists_faceted[field_id], {"exists_faceted"})
           [] operator.cond = "Equal" ->
                equal_docids(field_id, operator.val)
           [] operator.cond = "NotEqual" ->
                not_equal_docids(evaluate_operator(field_id, NoUniverse,
                                                   Equal(operator.val),
                                                   features, rule_index))
           [] operator.cond = "Contains" ->
                contains_docids(field_id, operator.word)
           [] operator.cond = "StartsWith" ->
                starts_with_docids(field_id, operator.word)

(***************************************************************************)
(* Filter::inner_evaluate                                                  *)
(***************************************************************************)
\* MultiOps::union over an iterator of results: the union of the bitmaps,
\* or the first error, the results after it not being computed
union(results) ==
    LET failed == {i \in 1..Len(results) : ~results[i].ok}
        upto(n) == UNION {results[i].reads : i \in 1..n}
    IN IF failed = {}
       THEN Ok(UNION {results[i].bitmap : i \in 1..Len(results)}, upto(Len(results)))
       ELSE LET first == CHOOSE i \in failed : \A j \in failed : i <= j
            IN Err(results[first].error, upto(first))

\* not_selected taking the complement in all the documents whatever the
\* universe
not_selected_from_all(universe, selected) == documents_ids \ selected


\* not_selected returning the whole universe when there is one
not_selected_keeping_universe(universe, selected) ==
    IF universe.some THEN universe.set ELSE documents_ids \ selected


\* not_selected with the complement of the no-universe case forgotten
not_selected_without_complement(universe, selected) ==
    IF universe.some THEN universe.set \ selected ELSE selected

\* the end of the Not arm: what is left of the universe, or of all the
\* documents when there is no universe
not_selected(universe, selected) ==
    IF universe.some THEN universe.set \ selected ELSE documents_ids \ selected

\* the Not arm applied n times to the result of the innermost child (the
\* result of the first half is bound by a set, so it is computed first)
RECURSIVE not_times(_, _, _)
not_times(n, universe, selected) ==
    IF n = 0 THEN selected
    ELSE IF n = 1 THEN not_selected(universe, selected)
    ELSE CHOOSE r \in {not_times(n - (n \div 2), universe, half) :
                          half \in {not_times(n \div 2, universe, selected)}} : TRUE

\* and_step that leaves the bitmap as it is
and_step_keeping_bitmap(bitmap, result) == bitmap


\* and_step as `bitmap = result`
and_step_overwrite(bitmap, result) == result

\* and_step as `bitmap -= result`
and_step_difference(bitmap, result) == bitmap \ result

\* one step of the And fold: `bitmap &= result`
and_step(bitmap, result) == bitmap \cap result

\* not_child_universe evaluating the child with no universe
not_child_without_universe(universe) == NoUniverse


\* the universe the Not arm passes to its child
not_child_universe(universe) == universe

\* resolve_field giving a field without rule the features of no rule
resolve_field_without_rule(fid) ==
    LET id == field_id_of(fields_ids_map, fid)
        m == matching_features(fid, filterable_attributes_rules)
    IN IF ~id.some
       THEN [some |-> FALSE, field_id |-> 0, rule_index |-> 0,
             features |-> NotFilterable]
       ELSE [some |-> TRUE, field_id |-> id.id, rule_index |-> m.rule_index,
             features |-> m.features]

\* the head of the In and Condition arms: the id of the field and the rule
\* that matches it; None when the field is not in the fields-ids map or no
\* rule matches
resolve_field(fid) ==
    LET id == field_id_of(fields_ids_map, fid)
        m == matching_features(fid, filterable_attributes_rules)
    IN IF ~id.some \/ ~m.some
       THEN [some |-> FALSE, field_id |-> 0, rule_index |-> 0,
             features |-> NotFilterable]
       ELSE [some |-> TRUE, field_id |-> id.id, rule_index |-> m.rule_index,
             features |-> m.features]

IsLat(x) == -90 <= x /\ x <= 90

IsLng(x) == -180 <= x /\ x <= 180

\* what two distinct positions of the model are at least apart, in metres:
\* positions are whole degrees between the 45th parallels
FAR_APART == 78000

\* distance_between_two_points, in metres
distance_between_two_points(a, b) == IF a = b THEN 0 ELSE FAR_APART

GeoStores == {"filterable_attributes_rules", "geo_rtree"}

\* the error of both geo arms on an index without geo filtering
geo_not_filterable ==
    Err(AttributeNotFilterable(RESERVED_GEO_FIELD_NAME,
            filtered_matching_patterns(filterable_attributes_rules)),
        {"filterable_attributes_rules"})

\* geo_lower_than validating the position before looking at the settings
geo_lower_than_validating_first(point, radius) ==
    LET lat == parse_finite_float(point[1])
        lng == parse_finite_float(point[2])
    IN IF ~lat.some \/ ~lng.some
       THEN Err(InvalidFilter, {"filterable_attributes_rules"})
       ELSE IF ~IsLat(lat.num)
       THEN Err(BadGeoLat(lat.num), {"filterable_attributes_rules"})
       ELSE IF ~IsLng(lng.num)
       THEN Err(BadGeoLng(lng.num), {"filterable_attributes_rules"})
       ELSE IF ~is_geo_filtering_enabled(filterable_attributes_rules)
       THEN geo_not_filterable
       ELSE Ok({}, GeoStores)

\* the GeoLowerThan arm
geo_lower_than(point, radius) ==
    IF is_geo_filtering_enabled(filterable_attributes_rules)
    THEN LET lat == parse_finite_float(point[1])
             lng == parse_finite_float(point[2])
             rad == parse_finite_float(radius)
         IN IF ~lat.some \/ ~lng.some
            THEN Err(InvalidFilter, {"filterable_attributes_rules"})
            ELSE IF ~IsLat(lat.num)
            THEN Err(BadGeoLat(lat.num), {"filterable_attributes_rules"})
            ELSE IF ~IsLng(lng.num)
            THEN Err(BadGeoLng(lng.num), {"filterable_attributes_rules"})
            ELSE IF ~rad.some
            THEN Err(InvalidFilter, {"filterable_attributes_rules"})
            ELSE IF ~geo_rtree.some THEN Ok({}, GeoStores)
            ELSE Ok({p.docid : p \in
                        {q \in geo_rtree.points :
                            distance_between_two_points(<<lat.num, lng.num>>,
                                                        <<q.lat, q.lng>>)
                                <= rad.num}},
                    GeoStores)
    ELSE geo_not_filterable

MinLng == <<45, 49, 56, 48, 46, 48>>

MaxLng == <<49, 56, 48, 46, 48>>

RECURSIVE inner_evaluate(_, _)
\* geo_box_docids with one longitude range, whether the box wraps or not
geo_box_docids_without_wrap(top_right_point, bottom_left_point, wraps, universe) ==
    LET lat == inner_evaluate(
                   Condition("_geo.lat",
                             Between(bottom_left_point[1], top_right_point[1])),
                   universe)
        lng == inner_evaluate(
                   Condition("_geo.lng",
                             Between(bottom_left_point[2], top_right_point[2])),
                   universe)
    IN IF ~lat.ok THEN lat
       ELSE IF ~lng.ok THEN Err(lng.error, lat.reads \cup lng.reads)
       ELSE Ok(lat.bitmap \cap lng.bitmap, lat.reads \cup lng.reads)


\* the three range conditions of a bounding box, once its corners are valid;
\* a condition that fails ends the arm, the stores read by the conditions
\* before it having been read
geo_box_docids(top_right_point, bottom_left_point, wraps, universe) ==
    LET lat == inner_evaluate(
                   Condition("_geo.lat",
                             Between(bottom_left_point[1], top_right_point[1])),
                   universe)
    IN IF ~lat.ok THEN lat
       ELSE IF wraps
       THEN LET left == inner_evaluate(
                            Condition("_geo.lng", Between(bottom_left_point[2], MaxLng)),
                            universe)
            IN IF ~left.ok THEN Err(left.error, lat.reads \cup left.reads)
               ELSE LET right == inner_evaluate(
                                     Condition("_geo.lng",
                                               Between(MinLng, top_right_point[2])),
                                     universe)
                    IN IF ~right.ok
                       THEN Err(right.error,
                                lat.reads \cup left.reads \cup right.reads)
                       ELSE Ok(lat.bitmap \cap (left.bitmap \cup right.bitmap),
                               lat.reads \cup left.reads \cup right.reads)
       ELSE LET lng == inner_evaluate(
                           Condition("_geo.lng",
                                     Between(bottom_left_point[2], top_right_point[2])),
                           universe)
            IN IF ~lng.ok THEN Err(lng.error, lat.reads \cup lng.reads)
               ELSE Ok(lat.bitmap \cap lng.bitmap, lat.reads \cup lng.reads)

\* geo_bounding_box comparing the two latitudes before it validates them
geo_bounding_box_comparing_first(top_right_point, bottom_left_point, universe) ==
    IF is_geo_filtering_enabled(filterable_attributes_rules)
    THEN LET top_lat == parse_finite_float(top_right_point[1])
             top_lng == parse_finite_float(top_right_point[2])
             bottom_lat == parse_finite_float(bottom_left_point[1])
             bottom_lng == parse_finite_float(bottom_left_point[2])
         IN IF ~top_lat.some \/ ~top_lng.some \/ ~bottom_lat.some \/ ~bottom_lng.some
            THEN Err(InvalidFilter, {"filterable_attributes_rules"})
            ELSE IF top_lat.num < bottom_lat.num
            THEN Err(BoundingBoxTopIsBelowBottom(top_lat.num, bottom_lat.num),
                     {"filterable_attributes_rules"})
            ELSE IF ~IsLat(top_lat.num)
            THEN Err(BadGeoLat(top_lat.num), {"filterable_attributes_rules"})
            ELSE IF ~IsLng(top_lng.num)
            THEN Err(BadGeoLng(top_lng.num), {"filterable_attributes_rules"})
            ELSE IF ~IsLat(bottom_lat.num)
            THEN Err(BadGeoLat(bottom_lat.num), {"filterable_attributes_rules"})
            ELSE IF ~IsLng(bottom_lng.num)
            THEN Err(BadGeoLng(bottom_lng.num), {"filterable_attributes_rules"})
            ELSE LET r == geo_box_docids(top_right_point, bottom_left_point,
                                         top_lng.num < bottom_lng.num, universe)
                 IN [r EXCEPT !.reads = @ \cup {"filterable_attributes_rules"}]
    ELSE geo_not_filterable

\* the GeoBoundingBox arm
geo_bounding_box(top_right_point, bottom_left_point, universe) ==
    IF is_geo_filtering_enabled(filterable_attributes_rules)
    THEN LET top_lat == parse_finite_float(top_right_point[1])
             top_lng == parse_finite_float(top_right_point[2])
             bottom_lat == parse_finite_float(bottom_left_point[1])
             bottom_lng == parse_finite_float(bottom_left_point[2])
         IN IF ~top_lat.some \/ ~top_lng.some \/ ~bottom_lat.some \/ ~bottom_lng.some
            THEN Err(InvalidFilter, {"filterable_attributes_rules"})
            ELSE IF ~IsLat(top_lat.num)
            THEN Err(BadGeoLat(top_lat.num), {"filterable_attributes_rules"})
            ELSE IF ~IsLng(top_lng.num)
            THEN Err(BadGeoLng(top_lng.num), {"filterable_attributes_rules"})
            ELSE IF ~IsLat(bottom_lat.num)
            THEN Err(BadGeoLat(bottom_lat.num), {"filterable_attributes_rules"})
            ELSE IF ~IsLng(bottom_lng.num)
            THEN Err(BadGeoLng(bottom_lng.num), {"filterable_attributes_rules"})
            ELSE IF top_lat.num < bottom_lat.num
            THEN Err(BoundingBoxTopIsBelowBottom(top_lat.num, bottom_lat.num),
                     {"filterable_attributes_rules"})
            ELSE LET r == geo_box_docids(top_right_point, bottom_left_point,
                                         top_lng.num < bottom_lng.num, universe)
                 IN [r EXCEPT !.reads = @ \cup {"filterable_attributes_rules"}]
    ELSE geo_not_filterable

RECURSIVE and_fold(_, _, _, _)
\* the loop of the And arm from the i-th subfilter on
and_fold(subfilters, i, bitmap, reads) ==
    IF i > Len(subfilters) THEN Ok(bitmap, reads)
    ELSE IF bitmap = {} THEN Ok(bitmap, reads)
    ELSE LET r == inner_evaluate(subfilters[i], SomeUniverse(bitmap))
         IN IF ~r.ok THEN Err(r.error, reads \cup r.reads)
            ELSE and_fold(subfilters, i + 1, and_step(bitmap, r.bitmap),
                          reads \cup r.reads)

inner_evaluate(condition, universe) ==
    IF universe.some /\ universe.set = {} THEN Ok({}, {})
    ELSE CASE condition.kind = "Not" ->
                LET r == inner_evaluate(condition.child, not_child_universe(universe))
                IN IF ~r.ok THEN r
                   ELSE Ok(not_times(condition.n, universe, r.bitmap),
                           r.reads \cup (IF universe.some THEN {} ELSE {"documents_ids"}))
           [] condition.kind \in {"In", "Condition"} ->
                LET f == resolve_field(condition.fid)
                IN IF ~f.some THEN Ok({}, {})
                   ELSE IF condition.kind = "In"
                   THEN union([i \in 1..Len(condition.els) |->
                                  evaluate_operator(f.field_id, universe,
                                                    Equal(condition.els[i]),
                                                    f.features, f.rule_index)])
                   ELSE evaluate_operator(f.field_id, universe, condition.op,
                                          f.features, f.rule_index)
           [] condition.kind = "Or" ->
                union([i \in 1..Len(condition.subfilters) |->
                          inner_evaluate(condition.subfilters[i], universe)])
           [] condition.kind = "And" ->
                IF condition.subfilters = <<>> THEN Ok({}, {})
                ELSE LET r == inner_evaluate(condition.subfilters[1], universe)
                     IN IF ~r.ok THEN r
                        ELSE and_fold(condition.subfilters, 2, r.bitmap, r.reads)
           [] condition.kind = "GeoLowerThan" ->
                geo_lower_than(condition.point, condition.radius)
           [] condition.kind = "GeoBoundingBox" ->
                geo_bounding_box(condition.top_right_point,
                                 condition.bottom_left_point, universe)

(***************************************************************************)
(* Depth of a filter, Filter::evaluate and the constructors                *)
(***************************************************************************)
\* FilterCondition::fids(depth): the fields of the In and Condition nodes
\* met when walking at most `depth` levels down, in order
RECURSIVE fids(_, _)
RECURSIVE fids_of_all(_, _, _)
fids_of_all(subfilters, i, depth) ==
    IF i > Len(subfilters) THEN <<>>
    ELSE fids(subfilters[i], depth) \o fids_of_all(subfilters, i + 1, depth)

fids(condition, depth) ==
    IF depth = 0 THEN <<>>
    ELSE CASE condition.kind \in {"In", "Condition"} -> <<condition.fid>>
           [] condition.kind = "Not" ->
                fids(condition.child, Max2(depth - condition.n, 0))
           [] condition.kind \in {"And", "Or"} ->
                fids_of_all(condition.subfilters, 1, depth - 1)
           [] OTHER -> <<>>

\* FilterCondition::token_at_depth(depth): the first token that sits
\* `depth` or more child edges below the node
RECURSIVE token_at_depth(_, _)
token_at_depth_of_all(subfilters, depth) ==
    LET hits == {i \in 1..Len(subfilters) : token_at_depth(subfilters[i], depth).some}
    IN IF hits = {} THEN [some |-> FALSE, token |-> ""]
       ELSE token_at_depth(subfilters[CHOOSE i \in hits : \A j \in hits : i <= j], depth)

token_at_depth(condition, depth) ==
    CASE condition.kind \in {"In", "Condition"} ->
           IF depth = 0 THEN [some |-> TRUE, token |-> condition.fid]
           ELSE [some |-> FALSE, token |-> ""]
      [] condition.kind = "Not" ->
           token_at_depth(condition.child, Max2(depth - condition.n, 0))
      [] condition.kind \in {"And", "Or"} ->
           token_at_depth_of_all(condition.subfilters, Max2(depth - 1, 0))
      [] condition.kind = "GeoLowerThan" ->
           IF depth = 0 THEN [some |-> TRUE, token |-> condition.point[1]]
           ELSE [some |-> FALSE, token |-> ""]
      [] condition.kind = "GeoBoundingBox" ->
           IF depth = 0 THEN [some |-> TRUE, token |-> condition.top_right_point[1]]
           ELSE [some |-> FALSE, token |-> ""]

\* first_not_filterable looking at the first field only
first_not_filterable_first_only(condition) ==
    LET all == fids(condition, MAX_FILTER_DEPTH)
        bad == {i \in 1..Min2(1, Len(all)) :
                   LET m == matching_features(all[i], filterable_attributes_rules)
                   IN ~(m.some /\ is_filterable(m.features))}
    IN IF bad = {} THEN [some |-> FALSE, attribute |-> ""]
       ELSE [some |-> TRUE, attribute |-> all[1]]

\* the preflight of Filter::evaluate: the first referenced field that is
\* not filterable
first_not_filterable(condition) ==
    LET all == fids(condition, MAX_FILTER_DEPTH)
        bad == {i \in 1..Len(all) :
                   LET m == matching_features(all[i], filterable_attributes_rules)
                   IN ~(m.some /\ is_filterable(m.features))}
    IN IF bad = {} THEN [some |-> FALSE, attribute |-> ""]
       ELSE [some |-> TRUE,
             attribute |-> all[CHOOSE i \in bad : \A j \in bad : i <= j]]

SettingsStores == {"fields_ids_map", "filterable_attributes_rules"}

\* Filter::evaluate
evaluate(condition) ==
    LET bad == first_not_filterable(condition)
    IN IF bad.some
       THEN Err(AttributeNotFilterable(bad.attribute,
                    filtered_matching_patterns(filterable_attributes_rules)),
                SettingsStores)
       ELSE LET r == inner_evaluate(condition, NoUniverse)
            IN [r EXCEPT !.reads = @ \cup SettingsStores]

\* an expression is given by what FilterCondition::parse makes of it
Parsed(condition) == [parse |-> "Some", condition |-> condition]

Blank == [parse |-> "None"]

Malformed == [parse |-> "Err"]

\* an expression given as its words: "(", ")", "AND", "OR" and conditions
Text(words) == [parse |-> "Text", words |-> words]

\* the conditions written in a text
ConditionTexts == {"f = 1", "g = 1", "f != 1"}

ConditionOf(word) ==
    CASE word = "f = 1" -> Condition("f", Equal(S1))
      [] word = "g = 1" -> Condition("g", Equal(S1))
      [] word = "f != 1" -> Condition("f", NotEqual(S1))

NoParse == [ok |-> FALSE, tree |-> <<>>, next |-> 0]

\* the grammar: or = and (OR and)*, and = primary (AND primary)*,
\* primary = condition | "(" or ")"; an operator with one operand is that
\* operand, with more operands one node holding them all. The rules "and"
\* and "or" read their first operand, "more and" and "more or" read the
\* (keyword operand)* that follow it
RECURSIVE parse_rule(_, _, _, _)
parse_rule(rule, words, i, operands) ==
    LET of_and == rule \in {"and", "more and"}
        operand == IF of_and THEN "primary" ELSE "and"
        more == IF of_and THEN "more and" ELSE "more or"
        keyword == IF of_and THEN "AND" ELSE "OR"
    IN CASE rule = "primary" ->
              IF i > Len(words) THEN NoParse
              ELSE IF words[i] \in ConditionTexts
              THEN [ok |-> TRUE, tree |-> ConditionOf(words[i]), next |-> i + 1]
              ELSE IF words[i] = "("
              THEN LET r == parse_rule("or", words, i + 1, <<>>)
                   IN IF r.ok /\ r.next <= Len(words) /\ words[r.next] = ")"
                      THEN [r EXCEPT !.next = @ + 1]
                      ELSE NoParse
              ELSE NoParse
         [] rule \in {"and", "or"} ->
              LET first == parse_rule(operand, words, i, <<>>)
              IN IF ~first.ok THEN NoParse
                 ELSE parse_rule(more, words, first.next, <<first.tree>>)
         [] rule \in {"more and", "more or"} ->
              IF i <= Len(words) /\ words[i] = keyword
              THEN LET r == parse_rule(operand, words, i + 1, <<>>)
                   IN IF ~r.ok THEN NoParse
                      ELSE parse_rule(more, words, r.next, Append(operands, r.tree))
              ELSE [ok |-> TRUE, next |-> i,
                    tree |-> IF Len(operands) = 1 THEN operands[1]
                             ELSE IF of_and THEN And(operands) ELSE Or(operands)]

\* FilterCondition::parse: Ok(None) for a text without words, Ok(Some(tree))
\* for a text of the grammar, Err otherwise; an expression given as Parsed,
\* Blank or Malformed is a text known by its parse
FilterCondition_parse(expression) ==
    IF expression.parse # "Text" THEN expression
    ELSE IF expression.words = <<>> THEN Blank
    ELSE LET r == parse_rule("or", expression.words, 1, <<>>)
         IN IF r.ok /\ r.next = Len(expression.words) + 1
            THEN Parsed(r.tree)
            ELSE Malformed

\* what a constructor returns: Ok(Some(filter)), Ok(None) or Err(error)
OkSome(condition) ==
    [ok |-> TRUE, some |-> TRUE, condition |-> condition, error |-> NoError]

OkNone == [ok |-> TRUE, some |-> FALSE, condition |-> <<>>, error |-> NoError]

Failed(error) == [ok |-> FALSE, some |-> FALSE, condition |-> <<>>, error |-> error]

\* checked with the limit one level further down
checked_one_deeper(condition) ==
    IF token_at_depth(condition, MAX_FILTER_DEPTH + 1).some
    THEN Failed(TooDeep)
    ELSE OkSome(condition)

\* the depth check the constructors end with
checked(condition) ==
    IF token_at_depth(condition, MAX_FILTER_DEPTH).some
    THEN Failed(TooDeep)
    ELSE OkSome(condition)

\* Filter::from_str
from_str(expression) ==
    LET p == FilterCondition_parse(expression)
    IN CASE p.parse = "Err" -> Failed(InvalidFilter)
         [] p.parse = "None" -> OkNone
         [] p.parse = "Some" -> checked(p.condition)

\* an element of the array given to from_array
Left(rules) == [left |-> TRUE, rules |-> rules]

Right(rule) == [left |-> FALSE, rules |-> <<rule>>]

\* the inner loop of from_array: the conditions of an inner array
RECURSIVE collect_ors(_, _, _)
collect_ors(rules, i, ors) ==
    IF i > Len(rules) THEN [ok |-> TRUE, list |-> ors, error |-> NoError]
    ELSE LET r == from_str(rules[i])
         IN IF ~r.ok THEN [ok |-> FALSE, list |-> <<>>, error |-> r.error]
            ELSE collect_ors(rules, i + 1,
                             IF r.some THEN Append(ors, r.condition) ELSE ors)

\* push_ors wrapping a single condition in an Or
push_ors_always_wrapping(ands, ors) ==
    IF Len(ors) = 0 THEN ands ELSE Append(ands, Or(ors))

\* what an inner array adds to `ands`
push_ors(ands, ors) ==
    CASE Len(ors) = 0 -> ands
      [] Len(ors) = 1 -> Append(ands, ors[1])
      [] OTHER -> Append(ands, Or(ors))

\* the outer loop of from_array
RECURSIVE collect_ands(_, _, _)
collect_ands(array, i, ands) ==
    IF i > Len(array) THEN [ok |-> TRUE, list |-> ands, error |-> NoError]
    ELSE IF array[i].left
    THEN LET o == collect_ors(array[i].rules, 1, <<>>)
         IN IF ~o.ok THEN o
            ELSE collect_ands(array, i + 1, push_ors(ands, o.list))
    ELSE LET r == from_str(array[i].rules[1])
         IN IF ~r.ok THEN [ok |-> FALSE, list |-> <<>>, error |-> r.error]
            ELSE collect_ands(array, i + 1,
                              IF r.some THEN Append(ands, r.condition) ELSE ands)

\* combine_ands without the check of the combined tree
combine_ands_unchecked(ands) ==
    IF ands = <<>> THEN OkNone
    ELSE OkSome(IF Len(ands) = 1 THEN ands[1] ELSE And(ands))

\* the end of from_array: the combined tree and its depth check
combine_ands(ands) ==
    IF ands = <<>> THEN OkNone
    ELSE checked(IF Len(ands) = 1 THEN ands[1] ELSE And(ands))

\* Filter::from_array
from_array(array) ==
    LET a == collect_ands(array, 1, <<>>)
    IN IF ~a.ok THEN Failed(a.error) ELSE combine_ands(a.list)

(***************************************************************************)
(* The extractors: records, Del/Add values and sorters                     *)
(* (crates/milli-core/src/update/index_documents/extract)                  *)
(***************************************************************************)
Sb == <<98>>

\* the big-endian bytes of a number, and the number of big-endian bytes
to_be_bytes(n, width) == [i \in 1..width |-> (n \div (256 ^ (width - i))) % 256]

RECURSIVE from_be_bytes(_)
from_be_bytes(bytes) ==
    IF bytes = <<>> THEN 0
    ELSE 256 * from_be_bytes(SubSeq(bytes, 1, Len(bytes) - 1)) + bytes[Len(bytes)]

\* try_split_array_at::<N>: the first n bytes and the rest, if there are n
try_split_array_at(bytes, n) ==
    IF Len(bytes) < n THEN [some |-> FALSE, head |-> <<>>, tail |-> <<>>]
    ELSE [some |-> TRUE, head |-> SubSeq(bytes, 1, n),
          tail |-> SubSeq(bytes, n + 1, Len(bytes))]

\* one side of the value of an input record: a KvReaderU16 of the words by
\* position, or no side
NoWords == [some |-> FALSE, words |-> <<>>]

SomeWords(words) == [some |-> TRUE, words |-> words]

At(position, word) == [position |-> position, word |-> word]

\* a record of docid_word_positions: the key is the DocId (4 bytes) and the
\* FieldId (2 bytes), big-endian; the value is a KvReaderDelAdd
Record(document_id, fid, deletion, addition) ==
    [key |-> to_be_bytes(document_id, 4) \o to_be_bytes(fid, 2),
     value |-> [deletion |-> deletion, addition |-> addition]]

\* one side of an extracted value: a bitmap of doc ids, or no side
NoDocids == [some |-> FALSE, docids |-> {}]

SomeDocids(docids) == [some |-> TRUE, docids |-> docids]

DelAddOf(deletion, addition) == [deletion |-> deletion, addition |-> addition]

Entry(key, value) == [key |-> key, value |-> value]

\* MergeDeladdCboRoaringBitmaps: one value is kept as it is; several values
\* give a value with both sides, each the union of the sides given
MergeDeladdCboRoaringBitmaps(values) ==
    IF Len(values) = 1 THEN values[1]
    ELSE DelAddOf(
            SomeDocids(UNION {values[i].deletion.docids : i \in 1..Len(values)}),
            SomeDocids(UNION {values[i].addition.docids : i \in 1..Len(values)}))

\* the keys of a set in ascending byte order
RECURSIVE Ascending(_)
Ascending(keys) ==
    IF keys = {} THEN <<>>
    ELSE LET least == CHOOSE k \in keys : \A other \in keys : StrLeq(k, other)
         IN <<least>> \o Ascending(keys \ {least})

\* a sorter is the sequence of the entries inserted; reading it gives one
\* entry per key, in ascending key order, with the merged values of the key
sorter_into_reader(sorter) ==
    LET keys == Ascending({sorter[i].key : i \in 1..Len(sorter)})
    IN [k \in 1..Len(keys) |->
           Entry(keys[k],
                 MergeDeladdCboRoaringBitmaps(
                     LET same == SelectSeq(sorter, LAMBDA e : e.key = keys[k])
                     IN [i \in 1..Len(same) |-> same[i].value]))]

\* is_noop_del_add_obkv: the two sides are the same bytes
is_noop_del_add_obkv(value) == value.deletion = value.addition

\* the settings an extractor looks at: old and new
Settings(exact_attributes, exact_words, proximity_precision) ==
    [exact_attributes |-> exact_attributes, exact_words |-> exact_words,
     proximity_precision |-> proximity_precision]

\* disabled_typos_terms.is_exact(word)
is_exact(settings, word) == word \in settings.exact_words

DecodingError == [kind |-> "SerializationError::Decoding"]

Utf8Error == [kind |-> "Utf8Error"]

\* whether the bytes from the i-th on are well-formed UTF-8: no overlong
\* form, no surrogate, nothing above U+10FFFF, no sequence cut short
RECURSIVE is_utf8(_, _)
is_utf8(bytes, i) ==
    IF i > Len(bytes) THEN TRUE
    ELSE LET first == bytes[i]
             width == CASE first < 128 -> 1
                        [] first \in 194..223 -> 2
                        [] first \in 224..239 -> 3
                        [] first \in 240..244 -> 4
                        [] OTHER -> 0
             second == CASE first = 224 -> 160..191
                         [] first = 237 -> 128..159
                         [] first = 240 -> 144..191
                         [] first = 244 -> 128..143
                         [] OTHER -> 128..191
         IN /\ width > 0
            /\ i + width - 1 <= Len(bytes)
            /\ width > 1 => bytes[i + 1] \in second
            /\ \A k \in 2..(width - 1) : bytes[i + k] \in 128..191
            /\ is_utf8(bytes, i + width)

\* std::str::from_utf8: the bytes as a str, or Utf8Error
from_utf8(bytes) ==
    IF is_utf8(bytes, 1) THEN [ok |-> TRUE, str |-> bytes]
    ELSE [ok |-> FALSE, str |-> <<>>]

(***************************************************************************)
(* extract_word_docids                                                     *)
(***************************************************************************)
\* the words of one side of a record, as inserted one by one into the set
WordsInto(set, side) ==
    IF side.some
    THEN set \cup {side.words[i].word : i \in 1..Len(side.words)}
    ELSE set

\* words_into_sorter: one entry per word of del_words and add_words, in
\* the order of the words, keyed word, 0, fid
words_into_sorter(document_id, fid, del_words, add_words) ==
    LET words == Ascending(del_words \cup add_words)
    IN [i \in 1..Len(words) |->
           Entry(words[i] \o <<0>> \o to_be_bytes(fid, 2),
                 DelAddOf(IF words[i] \in del_words
                          THEN SomeDocids({document_id}) ELSE NoDocids,
                          IF words[i] \in add_words
                          THEN SomeDocids({document_id}) ELSE NoDocids))]

\* pass 1 without clearing del_words and add_words after a record
RECURSIVE word_fid_docids_of_keeping_words(_, _, _, _, _)
word_fid_docids_of_keeping_words(records, i, del_words, add_words, sorter) ==
    IF i > Len(records) THEN [ok |-> TRUE, sorter |-> sorter]
    ELSE LET document_id_bytes == try_split_array_at(records[i].key, 4)
             fid_bytes == try_split_array_at(document_id_bytes.tail, 2)
         IN IF ~document_id_bytes.some \/ ~fid_bytes.some
            THEN [ok |-> FALSE, sorter |-> <<>>]
            ELSE LET document_id == from_be_bytes(document_id_bytes.head)
                     fid == from_be_bytes(fid_bytes.head)
                     dels == WordsInto(del_words, records[i].value.deletion)
                     adds == WordsInto(add_words, records[i].value.addition)
                 IN word_fid_docids_of_keeping_words(records, i + 1, dels, adds,
                        sorter \o words_into_sorter(document_id, fid, dels, adds))


\* pass 1 from the i-th record on: del_words and add_words are the two
\* buffers, cleared after each record
RECURSIVE word_fid_docids_of(_, _, _, _, _)
word_fid_docids_of(records, i, del_words, add_words, sorter) ==
    IF i > Len(records) THEN [ok |-> TRUE, sorter |-> sorter]
    ELSE LET document_id_bytes == try_split_array_at(records[i].key, 4)
             fid_bytes == try_split_array_at(document_id_bytes.tail, 2)
         IN IF ~document_id_bytes.some \/ ~fid_bytes.some
            THEN [ok |-> FALSE, sorter |-> <<>>]
            ELSE LET document_id == from_be_bytes(document_id_bytes.head)
                     fid == from_be_bytes(fid_bytes.head)
                     dels == WordsInto(del_words, records[i].value.deletion)
                     adds == WordsInto(add_words, records[i].value.addition)
                 IN word_fid_docids_of(records, i + 1, {}, {},
                        sorter \o words_into_sorter(document_id, fid, dels, adds))

\* StrBEU16Codec::bytes_decode: the word and the fid of a key word, 0, fid;
\* an error on a key shorter than 3 bytes and on a word that is not UTF-8
StrBEU16Codec_decode(key) ==
    IF Len(key) < 3 THEN [ok |-> FALSE, word |-> <<>>, fid |-> 0]
    ELSE LET word == from_utf8(SubSeq(key, 1, Len(key) - 3))
         IN [ok |-> word.ok, word |-> word.str,
             fid |-> IF word.ok
                     THEN from_be_bytes(SubSeq(key, Len(key) - 1, Len(key)))
                     ELSE 0]

NoStreams == [word_docids |-> <<>>, exact_word_docids |-> <<>>, word_fid_docids |-> <<>>]

\* goes_to_exact looking at the field only
goes_to_exact_by_field_only(settings, word, fid) ==
    fid \in settings.exact_attributes

\* the stream a side of a (word, fid) record goes to
goes_to_exact(settings, word, fid) ==
    fid \in settings.exact_attributes \/ is_exact(settings, word)

\* pass 2 sending both sides where the new settings send the word
RECURSIVE split_streams_by_new_settings(_, _, _, _, _, _)
split_streams_by_new_settings(merged, i, settings_diff, writer, words, exact_words) ==
    IF i > Len(merged)
    THEN [ok |-> TRUE,
          streams |-> [word_docids |-> sorter_into_reader(words),
                       exact_word_docids |-> sorter_into_reader(exact_words),
                       word_fid_docids |-> writer]]
    ELSE LET value == merged[i].value
             k == StrBEU16Codec_decode(merged[i].key)
             sides == (IF value.deletion.some
                       THEN <<Entry(k.word, DelAddOf(value.deletion, NoDocids))>>
                       ELSE <<>>)
                      \o (IF value.addition.some
                          THEN <<Entry(k.word, DelAddOf(NoDocids, value.addition))>>
                          ELSE <<>>)
             in_exact == goes_to_exact(settings_diff.new, k.word, k.fid)
         IN IF ~k.ok THEN [ok |-> FALSE, streams |-> NoStreams]
            ELSE split_streams_by_new_settings(merged, i + 1, settings_diff,
                    IF is_noop_del_add_obkv(value) THEN writer
                    ELSE Append(writer, merged[i]),
                    words \o (IF in_exact THEN <<>> ELSE sides),
                    exact_words \o (IF in_exact THEN sides ELSE <<>>))


\* pass 2 from the i-th merged (word, fid) record on; a key that does not
\* decode ends the extraction with an error
RECURSIVE split_streams(_, _, _, _, _, _)
split_streams(merged, i, settings_diff, writer, words, exact_words) ==
    IF i > Len(merged)
    THEN [ok |-> TRUE,
          streams |-> [word_docids |-> sorter_into_reader(words),
                       exact_word_docids |-> sorter_into_reader(exact_words),
                       word_fid_docids |-> writer]]
    ELSE LET key == merged[i].key
             value == merged[i].value
             k == StrBEU16Codec_decode(key)
             deletion == IF value.deletion.some
                         THEN <<Entry(k.word, DelAddOf(value.deletion, NoDocids))>>
                         ELSE <<>>
             addition == IF value.addition.some
                         THEN <<Entry(k.word, DelAddOf(NoDocids, value.addition))>>
                         ELSE <<>>
             delete_from_exact == goes_to_exact(settings_diff.old, k.word, k.fid)
             add_in_exact == goes_to_exact(settings_diff.new, k.word, k.fid)
         IN IF ~k.ok THEN [ok |-> FALSE, streams |-> NoStreams]
            ELSE split_streams(merged, i + 1, settings_diff,
                    IF is_noop_del_add_obkv(value) THEN writer
                    ELSE Append(writer, merged[i]),
                    words \o (IF delete_from_exact THEN <<>> ELSE deletion)
                          \o (IF add_in_exact THEN <<>> ELSE addition),
                    exact_words \o (IF delete_from_exact THEN deletion ELSE <<>>)
                                \o (IF add_in_exact THEN addition ELSE <<>>))

\* extract_word_docids(docid_word_positions, settings_diff)
extract_word_docids(docid_word_positions, settings_diff) ==
    LET pass1 == word_fid_docids_of(docid_word_positions, 1, {}, {}, <<>>)
        pass2 == split_streams(sorter_into_reader(pass1.sorter), 1,
                               settings_diff, <<>>, <<>>, <<>>)
    IN IF ~pass1.ok \/ ~pass2.ok
       THEN [ok |-> FALSE, error |-> DecodingError, streams |-> NoStreams]
       ELSE [ok |-> TRUE, error |-> NoError, streams |-> pass2.streams]

(***************************************************************************)
(* extract_word_pair_proximity_docids                                      *)
(***************************************************************************)
MAX_DISTANCE == 8

\* index_proximity: the distance of two positions, at most MAX_DISTANCE
index_proximity(lhs, rhs) ==
    Min2(IF lhs <= rhs THEN rhs - lhs ELSE lhs - rhs, MAX_DISTANCE)

\* the best proximity of the pairs of words: a function of <<w1, w2>>
NoPairs == [pair \in {} |-> 0]

\* and_modify(min).or_insert
with_pair(word_pair_proximity, pair, prox) ==
    IF pair \in DOMAIN word_pair_proximity
    THEN [word_pair_proximity EXCEPT ![pair] = Min2(@, prox)]
    ELSE [p \in DOMAIN word_pair_proximity \cup {pair} |->
             IF p = pair THEN prox ELSE word_pair_proximity[p]]

\* the head of the window paired with the i-th and later elements
RECURSIVE head_pairs(_, _, _, _)
head_pairs(head, rest, i, word_pair_proximity) ==
    IF i > Len(rest) THEN word_pair_proximity
    ELSE LET prox == index_proximity(head.position, rest[i].position)
         IN head_pairs(head, rest, i + 1,
                IF prox > 0 /\ prox < MAX_DISTANCE
                THEN with_pair(word_pair_proximity, <<head.word, rest[i].word>>, prox)
                ELSE word_pair_proximity)

\* word_positions_into_word_pair_proximity keeping the last proximity seen
word_positions_into_word_pair_proximity_last(word_positions, word_pair_proximity) ==
    LET head == Head(word_positions)
        rest == Tail(word_positions)
        near == {i \in 1..Len(rest) :
                    LET prox == index_proximity(head.position, rest[i].position)
                    IN prox > 0 /\ prox < MAX_DISTANCE}
        pairs == {<<head.word, rest[i].word>> : i \in near}
        last(pair) == CHOOSE i \in near :
                         /\ <<head.word, rest[i].word>> = pair
                         /\ \A j \in near : <<head.word, rest[j].word>> = pair => j <= i
    IN [word_positions |-> rest,
        word_pair_proximity |->
            [p \in DOMAIN word_pair_proximity \cup pairs |->
                IF p \in pairs
                THEN index_proximity(head.position, rest[last(p)].position)
                ELSE word_pair_proximity[p]]]

\* word_positions_into_word_pair_proximity: pops the head of the window and
\* pairs it with every element left
word_positions_into_word_pair_proximity(word_positions, word_pair_proximity) ==
    [word_positions |-> Tail(word_positions),
     word_pair_proximity |->
         head_pairs(Head(word_positions), Tail(word_positions), 1, word_pair_proximity)]

\* the loop that drains the window until its head is close to the position
RECURSIVE drain_until_close(_, _)
drain_until_close(state, position) ==
    IF state.word_positions # <<>>
       /\ index_proximity(Head(state.word_positions).position, position) >= MAX_DISTANCE
    THEN drain_until_close(
             word_positions_into_word_pair_proximity(state.word_positions,
                                                     state.word_pair_proximity),
             position)
    ELSE state

\* the loop that empties the window
RECURSIVE drain_all(_)
drain_all(state) ==
    IF state.word_positions # <<>>
    THEN drain_all(word_positions_into_word_pair_proximity(state.word_positions,
                                                           state.word_pair_proximity))
    ELSE state

\* the loop over the words of one side from the i-th on: the window is
\* drained, then the word is read as a str and pushed; a word that is not
\* UTF-8 ends the task with an error, the window being left as it is
RECURSIVE words_into_window(_, _, _)
words_into_window(words, i, state) ==
    IF i > Len(words) THEN [ok |-> TRUE, state |-> state]
    ELSE LET drained == drain_until_close(state, words[i].position)
             word == from_utf8(words[i].word)
         IN IF ~word.ok THEN [ok |-> FALSE, state |-> drained]
            ELSE words_into_window(words, i + 1,
                     [drained EXCEPT !.word_positions =
                                         Append(@, At(words[i].position, word.str))])

\* one of the two tasks of rayon::join: the window and the pairs of its
\* side, and whether the task returns Ok
side_task(any, side, state) ==
    IF ~any \/ ~side.some THEN [ok |-> TRUE, state |-> state]
    ELSE LET filled == words_into_window(side.words, 1, state)
         IN IF filled.ok THEN [ok |-> TRUE, state |-> drain_all(filled.state)]
            ELSE filled

EmptySorters == [i \in 1..(MAX_DISTANCE - 1) |-> <<>>]

\* the items of a map: a pair of words with its proximity
PairItems(word_pair_proximity) ==
    {[w1 |-> p[1], w2 |-> p[2], prox |-> word_pair_proximity[p]]
        : p \in DOMAIN word_pair_proximity}

\* the order of the tuples ((w1, w2), prox)
ItemLess(a, b) ==
    IF a.w1 # b.w1 THEN StrLess(a.w1, b.w1)
    ELSE IF a.w2 # b.w2 THEN StrLess(a.w2, b.w2)
    ELSE a.prox < b.prox

\* the items of a set in that order
RECURSIVE AscendingItems(_)
AscendingItems(items) ==
    IF items = {} THEN <<>>
    ELSE LET least == CHOOSE item \in items :
                          \A other \in items : item = other \/ ItemLess(item, other)
         IN <<least>> \o AscendingItems(items \ {least})

\* the key with the proximity at its end
pair_key_proximity_last(prox, w1, w2) == w1 \o <<0>> \o w2 \o <<prox>>

\* the key of a pair: prox, w1, 0, w2
pair_key(prox, w1, w2) == <<prox>> \o w1 \o <<0>> \o w2

\* document_word_positions_into_sorter joining the two maps on the pair of
\* words alone: a pair of both maps gives one entry, under the proximity of
\* the Deletion
document_word_positions_into_sorter_by_pair(document_id, del_word_pair_proximity, add_word_pair_proximity, sorters) ==
    LET pairs == DOMAIN del_word_pair_proximity \cup DOMAIN add_word_pair_proximity
        prox_of(p) == IF p \in DOMAIN del_word_pair_proximity
                      THEN del_word_pair_proximity[p] ELSE add_word_pair_proximity[p]
        order == AscendingItems({[w1 |-> p[1], w2 |-> p[2], prox |-> prox_of(p)]
                                    : p \in pairs})
        entry_of(item) ==
            Entry(pair_key(item.prox, item.w1, item.w2),
                  DelAddOf(IF <<item.w1, item.w2>> \in DOMAIN del_word_pair_proximity
                           THEN SomeDocids({document_id}) ELSE NoDocids,
                           IF <<item.w1, item.w2>> \in DOMAIN add_word_pair_proximity
                           THEN SomeDocids({document_id}) ELSE NoDocids))
    IN [i \in 1..(MAX_DISTANCE - 1) |->
           sorters[i] \o
           LET mine == SelectSeq(order, LAMBDA item : item.prox = i)
           IN [k \in 1..Len(mine) |-> entry_of(mine[k])]]


\* document_word_positions_into_sorter: merge_join_by of the two maps; an
\* item of both maps gives one entry with both sides
document_word_positions_into_sorter(document_id, del_word_pair_proximity, add_word_pair_proximity, sorters) ==
    LET dels == PairItems(del_word_pair_proximity)
        adds == PairItems(add_word_pair_proximity)
        order == AscendingItems(dels \cup adds)
        entry_of(item) ==
            Entry(pair_key(item.prox, item.w1, item.w2),
                  DelAddOf(IF item \in dels THEN SomeDocids({document_id}) ELSE NoDocids,
                           IF item \in adds THEN SomeDocids({document_id}) ELSE NoDocids))
    IN [i \in 1..(MAX_DISTANCE - 1) |->
           sorters[i] \o
           LET mine == SelectSeq(order, LAMBDA item : item.prox = i)
           IN [k \in 1..Len(mine) |-> entry_of(mine[k])]]

NoDocumentId == [some |-> FALSE, id |-> 0]

EmptyWindow == [word_positions |-> <<>>, word_pair_proximity |-> NoPairs]

\* the state of the loop over the records
ProximityStart ==
    [ok |-> TRUE, error |-> NoError, current_document_id |-> NoDocumentId,
     del |-> EmptyWindow, add |-> EmptyWindow, sorters |-> EmptySorters]

\* the body of the loop for one record: flush on a change of document,
\* then the two tasks, then del? and add?
proximity_record(record, settings_diff, state) ==
    LET document_id_bytes == try_split_array_at(record.key, 4)
        document_id == from_be_bytes(document_id_bytes.head)
        changes == state.current_document_id.some
                   /\ state.current_document_id.id # document_id
        flushed ==
            IF changes
            THEN [state EXCEPT
                     !.sorters = document_word_positions_into_sorter(
                                     state.current_document_id.id,
                                     state.del.word_pair_proximity,
                                     state.add.word_pair_proximity, @),
                     !.del.word_pair_proximity = NoPairs,
                     !.add.word_pair_proximity = NoPairs]
            ELSE state
        any_deletion == settings_diff.old.proximity_precision = "ByWord"
        any_addition == settings_diff.new.proximity_precision = "ByWord"
        del == side_task(any_deletion, record.value.deletion, flushed.del)
        add == side_task(any_addition, record.value.addition, flushed.add)
    IN IF ~document_id_bytes.some
       THEN [state EXCEPT !.ok = FALSE, !.error = DecodingError]
       ELSE [flushed EXCEPT
                !.ok = del.ok /\ add.ok,
                !.error = IF del.ok /\ add.ok THEN NoError ELSE Utf8Error,
                !.current_document_id = [some |-> TRUE, id |-> document_id],
                !.del = del.state,
                !.add = add.state]

RECURSIVE proximity_records(_, _, _, _)
proximity_records(records, i, settings_diff, state) ==
    IF i > Len(records) \/ ~state.ok THEN state
    ELSE proximity_records(records, i + 1, settings_diff,
                           proximity_record(records[i], settings_diff, state))

\* the sorters written one after the other into the writer
RECURSIVE sorters_into_writer(_, _)
sorters_into_writer(sorters, i) ==
    IF i > Len(sorters) THEN <<>>
    ELSE sorter_into_reader(sorters[i]) \o sorters_into_writer(sorters, i + 1)

\* extract_word_pair_proximity_docids(docid_word_positions, settings_diff)
extract_word_pair_proximity_docids(docid_word_positions, settings_diff) ==
    IF settings_diff.settings_update_only /\ ~settings_diff.reindex_proximities
    THEN [ok |-> TRUE, error |-> NoError, stream |-> <<>>]
    ELSE LET end == proximity_records(docid_word_positions, 1, settings_diff,
                                      ProximityStart)
             last == IF end.current_document_id.some
                     THEN document_word_positions_into_sorter(
                              end.current_document_id.id,
                              end.del.word_pair_proximity,
                              end.add.word_pair_proximity, end.sorters)
                     ELSE end.sorters
         IN IF ~end.ok
            THEN [ok |-> FALSE, error |-> end.error, stream |-> <<>>]
            ELSE [ok |-> TRUE, error |-> NoError,
                  stream |-> sorters_into_writer(last, 1)]

(***************************************************************************)
(* The two tasks of rayon::join, step by step                              *)
(***************************************************************************)
Tasks == {"Deletion", "Addition"}

\* both tasks reading the window and the map of the deletions
captured_by_deletion_only(task, loop) == loop.del

\* the window and the map a task captures: del_word_positions and
\* del_word_pair_proximity, or add_word_positions and add_word_pair_proximity
captured_by(task, loop) == IF task = "Deletion" THEN loop.del ELSE loop.add

\* the side of the value a task reads
payload_of(task, value) == IF task = "Deletion" THEN value.deletion ELSE value.addition

\* any_deletion and any_addition
any_of(task, settings_diff) ==
    (IF task = "Deletion" THEN settings_diff.old
     ELSE settings_diff.new).proximity_precision = "ByWord"

\* the loop before its first record: no task is under way
JoinStart ==
    [loop |-> ProximityStart, at |-> 0, forked |-> ProximityStart,
     pc |-> [task \in Tasks |-> "done"], i |-> [task \in Tasks |-> 1]]

\* one step of a task on the record: the test of any_deletion and of the
\* side, one turn of a drain loop, the insertion of a word, or the end; the
\* task ends failed on a word that is not UTF-8
task_step(task, record, settings_diff, running) ==
    LET captured == captured_by(task, running.loop)
        payload == payload_of(task, record.value)
        at_pc == running.pc[task]
        word_index == running.i[task]
        popped == word_positions_into_word_pair_proximity(
                      captured.word_positions, captured.word_pair_proximity)
        after ==
            CASE at_pc = "start" ->
                     IF any_of(task, settings_diff) /\ payload.some
                     THEN [captured |-> captured, pc |-> "words", i |-> 1]
                     ELSE [captured |-> captured, pc |-> "done", i |-> word_index]
              [] at_pc = "words" ->
                     IF word_index > Len(payload.words)
                     THEN [captured |-> captured, pc |-> "empty", i |-> word_index]
                     ELSE IF captured.word_positions # <<>>
                             /\ index_proximity(Head(captured.word_positions).position,
                                                payload.words[word_index].position)
                                    >= MAX_DISTANCE
                     THEN [captured |-> popped, pc |-> "words", i |-> word_index]
                     ELSE IF ~from_utf8(payload.words[word_index].word).ok
                     THEN [captured |-> captured, pc |-> "failed", i |-> word_index]
                     ELSE [captured |->
                               [captured EXCEPT !.word_positions =
                                   Append(@, At(payload.words[word_index].position,
                                                from_utf8(payload.words[word_index].word).str))],
                           pc |-> "words", i |-> word_index + 1]
              [] OTHER ->
                     IF captured.word_positions # <<>>
                     THEN [captured |-> popped, pc |-> "empty", i |-> word_index]
                     ELSE [captured |-> captured, pc |-> "done", i |-> word_index]
    IN [running EXCEPT
           !.loop = IF task = "Deletion" THEN [@ EXCEPT !.del = after.captured]
                    ELSE [@ EXCEPT !.add = after.captured],
           !.pc[task] = after.pc,
           !.i[task] = after.i]

\* the loop reads a record: it flushes the maps when the document changes,
\* then forks the two tasks
read_record(record, running) ==
    LET document_id_bytes == try_split_array_at(record.key, 4)
        document_id == from_be_bytes(document_id_bytes.head)
        loop == running.loop
        changes == loop.current_document_id.some
                   /\ loop.current_document_id.id # document_id
        flushed ==
            IF changes
            THEN [loop EXCEPT
                     !.sorters = document_word_positions_into_sorter(
                                     loop.current_document_id.id,
                                     loop.del.word_pair_proximity,
                                     loop.add.word_pair_proximity, @),
                     !.del.word_pair_proximity = NoPairs,
                     !.add.word_pair_proximity = NoPairs]
            ELSE loop
        forked == [flushed EXCEPT
                      !.current_document_id = [some |-> TRUE, id |-> document_id]]
    IN IF ~document_id_bytes.some
       THEN [running EXCEPT !.loop.ok = FALSE, !.loop.error = DecodingError]
       ELSE [loop |-> forked, at |-> running.at + 1, forked |-> forked,
             pc |-> [task \in Tasks |-> "start"], i |-> [task \in Tasks |-> 1]]

\* rayon::join has returned: del? and add? end the extraction when a task
\* failed
joined(running) ==
    IF \E task \in Tasks : running.pc[task] = "failed"
    THEN [running.loop EXCEPT !.ok = FALSE, !.error = Utf8Error]
    ELSE running.loop

\* after the loop: the last document is flushed, the sorters are written
end_of_records(running) ==
    LET end == joined(running)
        last == IF end.current_document_id.some
                THEN document_word_positions_into_sorter(
                         end.current_document_id.id,
                         end.del.word_pair_proximity,
                         end.add.word_pair_proximity, end.sorters)
                ELSE end.sorters
    IN IF ~end.ok
       THEN [ok |-> FALSE, error |-> end.error, stream |-> <<>>]
       ELSE [ok |-> TRUE, error |-> NoError, stream |-> sorters_into_writer(last, 1)]


(***************************************************************************)
(* The filters, expressions and arrays the operations are applied to       *)
(***************************************************************************)
NumberTokens == {S1, S2, S3, S10}

\* conditions on one field
Atoms ==
    {Condition("f", op) : op \in
        {Equal(S1), Equal(SA), Equal(S2), Equal(S10), NotEqual(S1), NotEqual(Sa),
         GreaterThan(S1), GreaterThanOrEqual(S2), LowerThan(S3),
         LowerThanOrEqual(S2), LowerThan(Sinf), GreaterThanOrEqual(Sa),
         Between(S3, S1), Between(Sa, Sab), Between(S1, Sa),
         IsNull, IsEmpty, Exists, Contains(Sa), StartsWith(SA), Contains(S2)}}
    \cup {Condition("f", Between(a, b)) : a, b \in NumberTokens}
    \cup {Condition("g", op) : op \in
        {Equal(S1), Equal(S2), GreaterThan(S1), LowerThanOrEqual(S2),
         Between(S1, S2), Between(S10, S2), Exists, IsNull, Contains(S2),
         StartsWith(S2), NotEqual(S1)}}
    \cup {In("f", <<S1, Sa>>), In("f", <<>>), In("g", <<S2, S1>>)}

\* the sub-filters combined two by two
Subs ==
    { Condition("f", Equal(S1)),
      Condition("f", GreaterThanOrEqual(S2)),
      Condition("f", Equal(S10)),
      Condition("g", GreaterThan(S1)),
      Condition("g", Equal(S1)),
      Not(Condition("f", Equal(S1))),
      Or(<<Condition("f", IsNull), Condition("g", Exists)>>),
      And(<<Condition("g", Exists), Condition("g", LowerThanOrEqual(S2))>>) }

Pairs == {And(<<a, b>>) : a, b \in Subs} \cup {Or(<<a, b>>) : a, b \in Subs}

Nested ==
    { And(<<Condition("f", Exists), Not(Condition("f", Equal(S1))),
            Condition("g", GreaterThan(S1))>>),
      Or(<<Condition("f", Equal(S1)), Condition("g", Equal(S1)),
           Condition("f", IsEmpty)>>),
      And(<<Not(Condition("f", Equal(S1))), Not(Condition("g", Equal(S1)))>>),
      NotN(2, Condition("f", Equal(S1))),
      NotN(3, Condition("f", GreaterThan(S1))) }

\* filters around the depth limit
Deep ==
    { NotN(MAX_FILTER_DEPTH - 1, Condition("f", Equal(S1))),
      NotN(MAX_FILTER_DEPTH, Condition("f", Equal(S1))),
      NotN(MAX_FILTER_DEPTH + 1, Condition("f", Equal(S1))),
      NotN(MAX_FILTER_DEPTH, Condition("g", GreaterThan(S1))),
      And(<<Condition("f", Exists),
            NotN(MAX_FILTER_DEPTH - 1, Condition("g", Equal(S1)))>>),
      And(<<Condition("f", Exists),
            NotN(MAX_FILTER_DEPTH - 2, Condition("g", Equal(S1)))>>) }

Negated == {Not(c) : c \in Atoms \cup Subs \cup Nested \cup Deep}

\* combinators without children: no expression parses to them
Childless == {And(<<>>), Or(<<>>), Not(And(<<>>)), Not(Or(<<>>))}

Filters == Atoms \cup Subs \cup Pairs \cup Nested \cup Deep \cup Negated \cup Childless

\* the filters evaluated under a universe: conditions, combinators of them,
\* a Not over an And whose second child fails where the rule of g lacks
\* the comparison feature, and that And as a later child of an And
InnerFilters ==
    Subs \cup Nested
    \cup { And(<<Condition("f", Equal(S1)), Condition("g", Equal(S1))>>),
           And(<<Condition("f", Exists),
                 And(<<Not(Condition("f", Equal(S1))),
                       Condition("g", GreaterThan(S1))>>)>>),
           And(<<Condition("f", Equal(S1)),
                 And(<<Condition("f", Exists),
                       And(<<Not(Condition("f", Equal(S1))),
                             Condition("g", GreaterThan(S1))>>)>>)>>),
           And(<<Not(Condition("f", Equal(S1))),
                 And(<<Condition("g", Exists), Not(Condition("g", Equal(S1)))>>)>>),
           And(<<Condition("f", Exists), Not(Condition("g", Equal(S1)))>>),
           And(<<Not(Condition("f", Equal(S1))), Condition("g", GreaterThan(S1))>>),
           Not(And(<<Not(Condition("f", Equal(S1))),
                     Condition("g", GreaterThan(S1))>>)),
           Not(Or(<<Condition("f", Equal(S1)), Condition("g", Equal(S1))>>)),
           And(<<>>) }


\* expressions given as text
Texts ==
    {Text(words) : words \in
        { <<>>,
          <<"f = 1">>,
          <<"(", "f = 1", ")">>,
          <<"f = 1", "AND">>,
          <<"f = 1", "OR", "g = 1", "AND", "f != 1">>,
          <<"f = 1", "AND", "(", "g = 1", "OR", "f != 1", ")">>,
          <<"(", "(", "f = 1", ")", ")", "AND", "(", "(", "g = 1", ")", "OR",
            "(", "f != 1", ")", ")">>,
          <<"(", "f = 1", "OR", "g = 1", ")", "AND", "f != 1">>,
          <<"f = 1", ")", "OR", "(", "g = 1">> }}

\* arrays of texts
TextArrays ==
    LET a == Text(<<"f = 1">>)
        b == Text(<<"g = 1">>)
        c == Text(<<"f != 1">>)
        blank == Text(<<>>)
        a_or_b == Text(<<"f = 1", "OR", "g = 1">>)
        a_and_b == Text(<<"f = 1", "AND", "g = 1">>)
    IN { <<Right(a), Left(<<b, c>>)>>,
         <<Left(<<a>>)>>,
         <<Right(a)>>,
         <<Right(Text(<<"(", "f = 1", ")">>))>>,
         <<Right(blank), Left(<<blank>>)>>,
         <<Left(<<b, blank>>), Right(a)>>,
         <<Right(a), Left(<<blank, blank>>), Right(b)>>,
         <<Right(a_or_b), Right(c)>>,
         <<Left(<<a_and_b, c>>)>>,
         <<Left(<<a, b>>), Left(<<b, c>>)>>,
         <<Right(Text(<<"f = 1", "AND">>)), Right(a)>>,
         <<Left(<<Text(<<"f = 1", ")", "OR", "(", "g = 1">>)>>)>> }

Expressions ==
    {Blank, Malformed} \cup {Parsed(c) : c \in Subs \cup Nested \cup Deep}
    \cup Texts

\* the decimal digits of a natural number
RECURSIVE Digits(_)
Digits(n) ==
    IF n < 10 THEN <<48 + n>> ELSE Append(Digits(n \div 10), 48 + (n % 10))

\* the filter of tests::filter_depth: account_ids=1 OR ... OR account_ids=14361
FlatOr == Or([i \in 1..FLAT_OR_WIDTH |-> Condition("account_ids", Equal(Digits(i)))])

\* the same with a last operand that sits too deep
FlatOrDeep ==
    Or([i \in 1..FLAT_OR_WIDTH |->
           IF i < FLAT_OR_WIDTH THEN Condition("account_ids", Equal(Digits(i)))
           ELSE NotN(MAX_FILTER_DEPTH - 1, Condition("account_ids", Equal(Digits(i))))])

WideExpressions ==
    Expressions \cup {Parsed(c) : c \in Atoms \cup Negated \cup Pairs}
    \cup {Parsed(FlatOr), Parsed(FlatOrDeep)}

Arrays ==
    { <<>>,
      <<Right(Blank)>>,
      <<Left(<<>>)>>,
      <<Left(<<Blank, Blank>>), Right(Blank)>>,
      <<Right(Malformed)>>,
      <<Left(<<Parsed(Condition("f", Equal(S1))), Malformed>>)>>,
      <<Left(<<Parsed(Condition("f", Equal(S1)))>>)>>,
      <<Right(Parsed(Condition("f", Equal(S1))))>>,
      <<Left(<<Blank, Parsed(Condition("g", Equal(S1)))>>), Right(Blank)>>,
      <<Right(Parsed(Condition("f", Equal(S1)))),
        Left(<<Parsed(Condition("g", Equal(S1))),
               Parsed(Condition("f", NotEqual(S1)))>>)>>,
      <<Left(<<Parsed(Condition("g", Equal(S1))),
               Parsed(Condition("f", NotEqual(S1)))>>)>>,
      <<Right(Parsed(Condition("f", Exists))),
        Right(Parsed(NotN(MAX_FILTER_DEPTH - 1, Condition("g", Equal(S1)))))>>,
      <<Right(Parsed(Condition("f", Exists))),
        Right(Parsed(NotN(MAX_FILTER_DEPTH - 2, Condition("g", Equal(S1)))))>>,
      <<Left(<<Parsed(Condition("f", Exists)),
               Parsed(NotN(MAX_FILTER_DEPTH - 1, Condition("g", Equal(S1))))>>)>>,
      <<Left(<<Parsed(NotN(MAX_FILTER_DEPTH - 1, Condition("g", Equal(S1))))>>)>>,
      <<Right(Parsed(NotN(MAX_FILTER_DEPTH, Condition("g", Equal(S1))))),
        Right(Parsed(Condition("f", Exists)))>> }
    \cup TextArrays

\* the token of a whole number
TokenOf(n) == IF n < 0 THEN <<45>> \o Digits(0 - n) ELSE Digits(n)

\* a token that is not a number
Sx == <<120>>

\* the documents, settings and filters of the geo predicates
GeoDocChoices ==
    { GeoDoc(45, 9), GeoDoc(10, 170), GeoDoc(-20, -170),
      Doc(Vals({1}, {}), Absent, Absent, Absent) }

GeoRuleLists ==
    { <<>>,
      <<Rule("f", AllFeatures)>>,
      <<Rule("_geo", AllFeatures)>>,
      <<Rule("f", AllFeatures), Rule("_geo", AllFeatures)>>,
      <<Rule("_geo.lng", EqOnly), Rule("_geo", AllFeatures)>>,
      <<Rule("_geo.lat", EqOnly), Rule("_geo", AllFeatures)>> }

Radiuses ==
    {GeoLowerThan(<<lat, lng>>, radius) :
        lat \in {TokenOf(-100), TokenOf(-90), TokenOf(45), TokenOf(90), TokenOf(91), Sx},
        lng \in {TokenOf(9), TokenOf(150), TokenOf(180), TokenOf(181), TokenOf(-181)},
        radius \in {TokenOf(0), TokenOf(10), Sx}}

Boxes ==
    {GeoBoundingBox(<<tlat, tlng>>, <<blat, blng>>) :
        tlat \in {TokenOf(30), TokenOf(90), TokenOf(91), TokenOf(-100)},
        tlng \in {TokenOf(10), TokenOf(181), TokenOf(-160), Sx},
        blat \in {TokenOf(-90), TokenOf(45), TokenOf(91)},
        blng \in {TokenOf(-5), TokenOf(150), TokenOf(250)}}

GeoAtoms == Radiuses \cup Boxes

GeoFilters ==
    GeoAtoms
    \cup {Not(GeoLowerThan(<<TokenOf(45), TokenOf(9)>>, TokenOf(0))),
          And(<<Condition("f", Equal(S1)),
                GeoLowerThan(<<TokenOf(-100), TokenOf(150)>>, TokenOf(10))>>),
          Or(<<Condition("f", Equal(S1)),
               GeoBoundingBox(<<TokenOf(30), TokenOf(10)>>,
                              <<TokenOf(91), TokenOf(150)>>)>>)}

\* the documents and fields of an extraction
MaxExtractDocs == 2

ExtractDocIds == 0..(MaxExtractDocs - 1)

ExtractFids == {0, 1}

SettingsDiff(old, new, settings_update_only, reindex_proximities) ==
    [old |-> old, new |-> new, settings_update_only |-> settings_update_only,
     reindex_proximities |-> reindex_proximities]

\* the words of a document by field; a field without words is not in the
\* document, a document without fields is not in the index
Fields(words0, words1) == [fid \in ExtractFids |-> IF fid = 0 THEN words0 ELSE words1]

NoDocument == Fields(<<>>, <<>>)

WordContents ==
    { NoDocument,
      Fields(<<At(0, Sa), At(1, Sb)>>, <<>>),
      Fields(<<At(0, Sa)>>, <<At(0, Sa)>>),
      Fields(<<At(0, Sb)>>, <<At(0, Sa), At(1, Sb)>>),
      Fields(<<>>, <<At(0, Sab)>>) }

WordSettings ==
    { Settings({}, {}, "ByWord"), Settings({0}, {}, "ByWord"),
      Settings({}, {Sa}, "ByWord") }

\* the records of one document: a record per field that has words before
\* or after the update, with the words before as Deletion and the words
\* after as Addition
RecordsOfDocument(d, before, after) ==
    LET present == SelectSeq(<<0, 1>>, LAMBDA fid : before[fid] # <<>> \/ after[fid] # <<>>)
    IN [i \in 1..Len(present) |->
           Record(d, present[i],
                  IF before[present[i]] # <<>> THEN SomeWords(before[present[i]]) ELSE NoWords,
                  IF after[present[i]] # <<>> THEN SomeWords(after[present[i]]) ELSE NoWords)]

\* docid_word_positions of an update: the records of the documents that
\* change, or of every document when all are indexed again, by DocId
RECURSIVE RecordsFrom(_, _, _, _)
RecordsFrom(d, old, new, all) ==
    IF d \notin DOMAIN old THEN <<>>
    ELSE (IF all \/ old[d] # new[d]
          THEN RecordsOfDocument(d, old[d], new[d]) ELSE <<>>)
         \o RecordsFrom(d + 1, old, new, all)

\* the words of the documents whose word pairs are extracted
PairContents ==
    { NoDocument,
      Fields(<<At(0, Sa), At(1, Sb), At(3, Sb)>>, <<>>),
      Fields(<<At(0, Sa), At(7, Sb), At(8, Sa), At(10, Sb)>>, <<>>),
      Fields(<<At(0, Sa)>>, <<At(1, Sb)>>),
      Fields(<<At(0, Sa), At(5, Sb)>>, <<At(0, Sa), At(1, Sb)>>) }

\* a word of two bytes, and bytes that are not UTF-8
Seacute == <<195, 169>>

Sbroken == <<255>>

\* records whose words are not all ASCII, or not all UTF-8
ByteContents ==
    { NoDocument,
      Fields(<<At(0, Sa), At(1, Seacute)>>, <<At(0, Seacute)>>),
      Fields(<<At(0, Sa), At(1, Sbroken), At(2, Sb)>>, <<>>),
      Fields(<<At(0, Sb), At(9, Sa)>>, <<At(0, Sbroken)>>) }

ProximityPrecisions == {"ByWord", "ByAttribute"}

\* the settings differences: a change of precision asks for new proximities
PairSettingsDiffs ==
    {diff \in {SettingsDiff(Settings({}, {}, before), Settings({}, {}, after),
                            only, reindex) :
                   before \in ProximityPrecisions, after \in ProximityPrecisions,
                   only \in BOOLEAN, reindex \in BOOLEAN} :
        diff.old # diff.new => diff.reindex_proximities}

(***************************************************************************)
(* Actions                                                                 *)
(***************************************************************************)
Init ==
    /\ documents = <<>>
    /\ filterable_attributes_rules = <<>>
    /\ fields_ids_map = <<>>
    /\ documents_ids = {}
    /\ facet_id_f64_docids = {}
    /\ facet_id_string_docids = {}
    /\ null_faceted = <<>>
    /\ empty_faceted = <<>>
    /\ exists_faceted = <<>>
    /\ geo_rtree = NoRtree
    /\ call = NoCall

\* index.add_documents: the document gets the next DocId.  Every
\* operation starts once the result of the previous call has been taken.
AddDocument(doc) ==
    /\ call = NoCall
    /\ Cardinality(DOMAIN documents) < MaxDocs
    /\ LET id == Cardinality(DOMAIN documents)
           docs == [d \in 0..id |-> IF d = id THEN doc ELSE documents[d]]
       IN IndexIs(docs, filterable_attributes_rules,
                  AppendNew(fields_ids_map, DocFieldNames(doc)))
    /\ call' = NoCall

\* index.update_settings(set_filterable_fields(rules))
SetFilterableFields(rules) ==
    /\ call = NoCall
    /\ rules # filterable_attributes_rules
    /\ IndexIs(documents, rules, fields_ids_map)
    /\ call' = NoCall

\* Filter::from_str(expression)
FromStr(expression) ==
    /\ call = NoCall
    /\ call' = [op |-> "from_str", arg |-> expression, universe |-> NoUniverse,
                result |-> from_str(expression)]
    /\ UNCHANGED indexVars

\* Filter::from_array(array)
FromArray(array) ==
    /\ call = NoCall
    /\ call' = [op |-> "from_array", arg |-> array, universe |-> NoUniverse,
                result |-> from_array(array)]
    /\ UNCHANGED indexVars

\* Filter::from(condition).evaluate(rtxn, index)
Evaluate(condition) ==
    /\ call = NoCall
    /\ call' = [op |-> "evaluate", arg |-> condition, universe |-> NoUniverse,
                result |-> evaluate(condition)]
    /\ UNCHANGED indexVars

\* Filter::from(condition).inner_evaluate(.., universe)
InnerEvaluate(condition, universe) ==
    /\ call = NoCall
    /\ call' = [op |-> "inner_evaluate", arg |-> condition, universe |-> universe,
                result |-> inner_evaluate(condition, universe)]
    /\ UNCHANGED indexVars

\* the caller takes the result; the read transaction ends
Return ==
    /\ call # NoCall
    /\ call' = NoCall
    /\ UNCHANGED indexVars

Universes == {NoUniverse} \cup {SomeUniverse(u) : u \in SUBSET documents_ids}

\* a call starts when no call is under way
Next ==
    \/ call = NoCall /\ \E doc \in DocChoices : AddDocument(doc)
    \/ call = NoCall /\ \E rules \in RuleLists : SetFilterableFields(rules)
    \/ call = NoCall /\ \E e \in Expressions : FromStr(e)
    \/ call = NoCall /\ \E a \in Arrays : FromArray(a)
    \/ call = NoCall /\ \E c \in Filters : Evaluate(c)
    \/ call = NoCall /\ \E c \in Atoms \cup Nested, u \in Universes : InnerEvaluate(c, u)
    \/ Return

Spec == Init /\ [][Next]_vars

\* the index with positions, and the geo predicates on it
NextGeo ==
    \/ call = NoCall /\ \E doc \in GeoDocChoices : AddDocument(doc)
    \/ call = NoCall /\ \E rules \in GeoRuleLists : SetFilterableFields(rules)
    \/ call = NoCall /\ \E c \in GeoFilters : Evaluate(c)
    \/ call = NoCall /\ \E c \in GeoAtoms, u \in Universes : InnerEvaluate(c, u)
    \/ Return

SpecGeo == Init /\ [][NextGeo]_vars

\* extract_word_docids on the records of an update from the documents old
\* to the documents new; a change of settings indexes every document again
ExtractWordDocids(old, new, settings_diff) ==
    /\ call = NoCall
    /\ LET records == RecordsFrom(0, old, new, settings_diff.old # settings_diff.new)
       IN call' = [op |-> "extract_word_docids",
                   arg |-> [old |-> old, new |-> new,
                            docid_word_positions |-> records,
                            settings_diff |-> settings_diff],
                   universe |-> NoUniverse,
                   result |-> extract_word_docids(records, settings_diff)]
    /\ UNCHANGED indexVars

NextWords ==
    \/ /\ call = NoCall
       /\ \E old \in [ExtractDocIds -> WordContents], new \in [ExtractDocIds -> WordContents],
             before \in WordSettings, after \in WordSettings :
               ExtractWordDocids(old, new, SettingsDiff(before, after, FALSE, TRUE))
    \/ /\ call = NoCall
       /\ \E old \in [ExtractDocIds -> ByteContents], new \in [ExtractDocIds -> ByteContents],
             after \in WordSettings :
               ExtractWordDocids(old, new,
                   SettingsDiff(Settings({}, {}, "ByWord"), after, FALSE, TRUE))
    \/ Return

SpecWords == Init /\ [][NextWords]_vars

\* pass 1 does not read the settings: the updates under settings that stay,
\* where the documents that change are indexed, and under settings that
\* change, where every document is
Pass1SettingsDiffs ==
    { SettingsDiff(Settings({}, {}, "ByWord"), Settings({}, {}, "ByWord"), FALSE, TRUE),
      SettingsDiff(Settings({}, {}, "ByWord"), Settings({0}, {}, "ByWord"), FALSE, TRUE) }

NextPass1 ==
    \/ /\ call = NoCall
       /\ \E old \in [ExtractDocIds -> WordContents], new \in [ExtractDocIds -> WordContents],
             settings_diff \in Pass1SettingsDiffs :
               ExtractWordDocids(old, new, settings_diff)
    \/ /\ call = NoCall
       /\ \E old \in [ExtractDocIds -> ByteContents], new \in [ExtractDocIds -> ByteContents],
             settings_diff \in Pass1SettingsDiffs :
               ExtractWordDocids(old, new, settings_diff)
    \/ Return

SpecPass1 == Init /\ [][NextPass1]_vars


\* extract_word_pair_proximity_docids on the records of an update; an update
\* of the settings alone, or a change of settings, indexes every document
ExtractWordPairProximityDocids(old, new, settings_diff) ==
    /\ call = NoCall
    /\ settings_diff.settings_update_only => new = old
    /\ LET records == RecordsFrom(0, old, new,
                                  settings_diff.settings_update_only
                                      \/ settings_diff.old # settings_diff.new)
       IN call' = [op |-> "extract_word_pair_proximity_docids",
                   arg |-> [old |-> old, new |-> new,
                            docid_word_positions |-> records,
                            settings_diff |-> settings_diff],
                   universe |-> NoUniverse,
                   result |-> extract_word_pair_proximity_docids(records, settings_diff)]
    /\ UNCHANGED indexVars

NextPairs ==
    \/ /\ call = NoCall
       /\ \E old \in [ExtractDocIds -> PairContents], new \in [ExtractDocIds -> PairContents],
             settings_diff \in PairSettingsDiffs :
               ExtractWordPairProximityDocids(old, new, settings_diff)
    \/ /\ call = NoCall
       /\ \E old \in [ExtractDocIds -> ByteContents], new \in [ExtractDocIds -> ByteContents],
             settings_diff \in PairSettingsDiffs :
               ExtractWordPairProximityDocids(old, new, settings_diff)
    \/ Return

SpecPairs == Init /\ [][NextPairs]_vars

\* the documents and settings of the extractions followed step by step
JoinContents ==
    { NoDocument,
      Fields(<<At(0, Sa), At(7, Sb), At(8, Sa), At(10, Sb)>>, <<>>),
      Fields(<<At(0, Sa), At(5, Sb)>>, <<At(0, Sa), At(1, Sb)>>) }

JoinSettingsDiffs ==
    { SettingsDiff(Settings({}, {}, "ByWord"), Settings({}, {}, "ByWord"), FALSE, TRUE),
      SettingsDiff(Settings({}, {}, "ByWord"), Settings({}, {}, "ByWord"), TRUE, FALSE),
      SettingsDiff(Settings({}, {}, "ByWord"), Settings({}, {}, "ByAttribute"), FALSE, TRUE),
      SettingsDiff(Settings({}, {}, "ByAttribute"), Settings({}, {}, "ByWord"), FALSE, TRUE) }

Joining == call.op = "rayon::join"

\* a task has returned, Ok or Err
Returned(task) == call.result.pc[task] \in {"done", "failed"}

BothDone == \A task \in Tasks : Returned(task)

\* extract_word_pair_proximity_docids is called: it returns at once, or
\* enters its loop
StartExtraction(old, new, settings_diff) ==
    /\ call = NoCall
    /\ settings_diff.settings_update_only => new = old
    /\ LET records == RecordsFrom(0, old, new,
                                  settings_diff.settings_update_only
                                      \/ settings_diff.old # settings_diff.new)
           arg == [old |-> old, new |-> new, docid_word_positions |-> records,
                   settings_diff |-> settings_diff]
       IN call' = IF settings_diff.settings_update_only
                     /\ ~settings_diff.reindex_proximities
                  THEN [op |-> "extract_word_pair_proximity_docids", arg |-> arg,
                        universe |-> NoUniverse,
                        result |-> [ok |-> TRUE, error |-> NoError, stream |-> <<>>]]
                  ELSE [op |-> "rayon::join", arg |-> arg, universe |-> NoUniverse,
                        result |-> JoinStart]
    /\ UNCHANGED indexVars

\* the loop moves on to the next record once rayon::join has returned
ReadRecord ==
    /\ Joining
    /\ BothDone
    /\ joined(call.result).ok
    /\ call.result.at < Len(call.arg.docid_word_positions)
    /\ call' = [call EXCEPT !.result =
                   read_record(call.arg.docid_word_positions[call.result.at + 1], @)]
    /\ UNCHANGED indexVars

\* one of the two tasks takes a step
TaskStep(task) ==
    /\ Joining
    /\ ~Returned(task)
    /\ call' = [call EXCEPT !.result =
                   task_step(task, call.arg.docid_word_positions[call.result.at],
                             call.arg.settings_diff, @)]
    /\ UNCHANGED indexVars

\* the loop ends: the last document is flushed and the stream returned
EndOfRecords ==
    /\ Joining
    /\ BothDone
    /\ call.result.at = Len(call.arg.docid_word_positions) \/ ~joined(call.result).ok
    /\ call' = [call EXCEPT !.op = "extract_word_pair_proximity_docids",
                            !.result = end_of_records(@)]
    /\ UNCHANGED indexVars

ReturnExtracted ==
    /\ call.op = "extract_word_pair_proximity_docids"
    /\ Return

NextJoin ==
    \/ /\ call = NoCall
       /\ \E old \in [ExtractDocIds -> JoinContents], new \in [ExtractDocIds -> JoinContents],
             settings_diff \in JoinSettingsDiffs :
               StartExtraction(old, new, settings_diff)
    \/ /\ call = NoCall
       /\ \E old \in [ExtractDocIds -> ByteContents], new \in [ExtractDocIds -> ByteContents],
             settings_diff \in JoinSettingsDiffs :
               StartExtraction(old, new, settings_diff)
    \/ ReadRecord
    \/ TaskStep("Deletion")
    \/ TaskStep("Addition")
    \/ EndOfRecords
    \/ ReturnExtracted

SpecJoin == Init /\ [][NextJoin]_vars


\* the constructors alone, on every expression and array
NextBuild ==
    \/ \E e \in WideExpressions : FromStr(e)
    \/ \E a \in Arrays : FromArray(a)
    \/ Return

SpecBuild == Init /\ [][NextBuild]_vars

\* inner_evaluate alone, on the filters evaluated under a universe
NextInner ==
    \/ call = NoCall /\ \E doc \in DocChoices : AddDocument(doc)
    \/ call = NoCall /\ \E rules \in RuleLists : SetFilterableFields(rules)
    \/ call = NoCall /\ \E c \in InnerFilters, u \in Universes : InnerEvaluate(c, u)
    \/ Return

SpecInner == Init /\ [][NextInner]_vars


(***************************************************************************)
(* Reference definitions used to state the properties                      *)
(***************************************************************************)
IsEvaluate == call.op = "evaluate"

IsInner == call.op = "inner_evaluate"

IsLeaf(c) == c.kind \in {"In", "Condition"}

\* the largest of a non-empty set of numbers
MaxOf(S) == CHOOSE m \in S : \A x \in S : x <= m

\* depth of the deepest node of a tree, the root being at depth 1
RECURSIVE FilterDepth(_)
FilterDepth(c) ==
    CASE IsLeaf(c) -> 1
      [] c.kind = "Not" -> c.n + FilterDepth(c.child)
      [] c.kind \in {"And", "Or"} ->
           IF c.subfilters = <<>> THEN 1
           ELSE 1 + MaxOf({FilterDepth(c.subfilters[i]) : i \in 1..Len(c.subfilters)})

\* every field a tree refers to, at any depth
RECURSIVE AllFields(_)
AllFields(c) ==
    CASE IsLeaf(c) -> {c.fid}
      [] c.kind = "Not" -> AllFields(c.child)
      [] c.kind \in {"And", "Or"} ->
           UNION {AllFields(c.subfilters[i]) : i \in 1..Len(c.subfilters)}

\* the fields a tree refers to in nodes at depth `limit` or less
RECURSIVE FieldsWithin(_, _)
FieldsWithin(c, limit) ==
    IF limit <= 0 THEN {}
    ELSE CASE IsLeaf(c) -> {c.fid}
           [] c.kind = "Not" -> FieldsWithin(c.child, limit - c.n)
           [] c.kind \in {"And", "Or"} ->
                UNION {FieldsWithin(c.subfilters[i], limit - 1) :
                          i \in 1..Len(c.subfilters)}

Filterable(field) ==
    \E i \in 1..Len(filterable_attributes_rules) :
        /\ filterable_attributes_rules[i].pattern = field
        /\ filterable_attributes_rules[i].features.filterable
        /\ \A j \in 1..(i - 1) : filterable_attributes_rules[j].pattern # field

\* the filter under the outermost Not of a Not node
Negand(c) == IF c.n = 1 THEN c.child ELSE NotN(c.n - 1, c.child)

IsPair(c) == c.kind \in {"And", "Or"} /\ Len(c.subfilters) = 2

Swapped(c) == [c EXCEPT !.subfilters = <<c.subfilters[2], c.subfilters[1]>>]

(***************************************************************************)
(* C1                                                                      *)
(***************************************************************************)
\* C1: when E evaluates without error, evaluate(NOT E) succeeds and returns
\* all the documents of the index minus evaluate(E).
C1_NotIsComplement ==
    (IsEvaluate /\ call.arg.kind = "Not") =>
        LET e == evaluate(Negand(call.arg))
        IN e.ok => /\ call.result.ok
                   /\ call.result.bitmap = documents_ids \ e.bitmap

C1_Witness ==
    /\ IsEvaluate
    /\ call.arg.kind = "Not"
    /\ evaluate(Negand(call.arg)).ok
    /\ evaluate(Negand(call.arg)).bitmap # {}
    /\ call.result.bitmap # {}

(***************************************************************************)
(* C2                                                                      *)
(***************************************************************************)
\* C2 as stated: A AND B and B AND A have the same outcome (same bitmap,
\* and one fails exactly when the other fails), and likewise for OR.
C2_Commutative ==
    (IsEvaluate /\ IsPair(call.arg)) =>
        LET s == evaluate(Swapped(call.arg))
        IN /\ call.result.ok = s.ok
           /\ call.result.bitmap = s.bitmap

\* C2, amended: A OR B and B OR A return the same bitmap and one fails
\* exactly when the other fails; A AND B and B AND A return the same bitmap
\* when both succeed, which they do when A and B both evaluate without
\* error.
C2_CommutativeWhenBothSucceed ==
    (IsEvaluate /\ IsPair(call.arg)) =>
        LET s == evaluate(Swapped(call.arg))
            a == evaluate(call.arg.subfilters[1])
            b == evaluate(call.arg.subfilters[2])
        IN /\ call.arg.kind = "Or" =>
                (call.result.ok = s.ok /\ call.result.bitmap = s.bitmap)
           /\ call.arg.kind = "And" =>
                /\ (call.result.ok /\ s.ok) => call.result.bitmap = s.bitmap
                /\ (a.ok /\ b.ok) => (call.result.ok /\ s.ok)

C2_Witness ==
    /\ IsEvaluate
    /\ IsPair(call.arg)
    /\ call.arg.kind = "And"
    /\ call.arg.subfilters[1] # call.arg.subfilters[2]
    /\ call.result.ok
    /\ call.result.bitmap # {}
    /\ evaluate(Swapped(call.arg)).ok
    /\ evaluate(call.arg.subfilters[1]).bitmap # evaluate(call.arg.subfilters[2]).bitmap

(***************************************************************************)
(* C3                                                                      *)
(***************************************************************************)
\* C3: when A evaluates without error, A AND A and A OR A both evaluate to
\* what A evaluates to.
C3_Idempotent ==
    (IsEvaluate /\ IsPair(call.arg)
        /\ call.arg.subfilters[1] = call.arg.subfilters[2]) =>
        LET a == evaluate(call.arg.subfilters[1])
        IN a.ok => /\ call.result.ok
                   /\ call.result.bitmap = a.bitmap

C3_Witness ==
    /\ IsEvaluate
    /\ IsPair(call.arg)
    /\ call.arg.kind = "And"
    /\ call.arg.subfilters[1] = call.arg.subfilters[2]
    /\ call.arg.subfilters[1].kind = "Not"
    /\ call.result.ok
    /\ call.result.bitmap # {}
    /\ call.result.bitmap # documents_ids

(***************************************************************************)
(* C4                                                                      *)
(***************************************************************************)
IsRange(c) ==
    /\ c.kind = "Condition"
    /\ c.op.cond = "Between"
    /\ parse_finite_float(c.op.from).some
    /\ parse_finite_float(c.op.to).some
    /\ parse_finite_float(c.op.from).num <= parse_finite_float(c.op.to).num

LowerPart(c) == evaluate(Condition(c.fid, GreaterThanOrEqual(c.op.from)))

UpperPart(c) == evaluate(Condition(c.fid, LowerThanOrEqual(c.op.to)))

\* the level 0 groups of a field that hold a document, in one facet store
GroupsOf(db, name, d) ==
    LET id == field_id_of(fields_ids_map, name)
    IN {e \in db : id.some /\ e.field_id = id.id /\ e.level = 0 /\ d \in e.bitmap}

\* no document holds two values of the field
SingleValued(name) ==
    \A d \in documents_ids :
        Cardinality(GroupsOf(facet_id_f64_docids, name, d))
          + Cardinality(GroupsOf(facet_id_string_docids, name, d)) <= 1

\* C4 as stated: for numeric a <= b, `f a TO b` selects exactly the
\* documents that both `f >= a` and `f <= b` select, whatever the facet
\* store holds.
C4_RangeIsIntersection ==
    (IsEvaluate /\ IsRange(call.arg) /\ call.result.ok) =>
        /\ LowerPart(call.arg).ok
        /\ UpperPart(call.arg).ok
        /\ call.result.bitmap =
              LowerPart(call.arg).bitmap \cap UpperPart(call.arg).bitmap

\* C4, amended: for numeric a <= b, every document `f a TO b` selects is
\* selected by both `f >= a` and `f <= b`, and the two sides are equal when
\* no document holds more than one value of f.
C4_RangeWithinIntersection ==
    (IsEvaluate /\ IsRange(call.arg) /\ call.result.ok) =>
        /\ LowerPart(call.arg).ok
        /\ UpperPart(call.arg).ok
        /\ call.result.bitmap \subseteq
              LowerPart(call.arg).bitmap \cap UpperPart(call.arg).bitmap
        /\ SingleValued(call.arg.fid) =>
              call.result.bitmap =
                 LowerPart(call.arg).bitmap \cap UpperPart(call.arg).bitmap

C4_Witness ==
    /\ IsEvaluate
    /\ IsRange(call.arg)
    /\ call.result.ok
    /\ SingleValued(call.arg.fid)
    /\ call.result.bitmap # {}
    /\ call.result.bitmap # documents_ids

(***************************************************************************)
(* C5                                                                      *)
(***************************************************************************)
IsTooDeep(result) == ~result.ok /\ result.error = TooDeep

\* C5 as stated: Filter::evaluate fails with TooDeep on every Filter that
\* has a node deeper than MAX_FILTER_DEPTH, and reads no facet store then.
C5_EvaluateRejectsDeep ==
    (IsEvaluate /\ FilterDepth(call.arg) > MAX_FILTER_DEPTH) =>
        /\ IsTooDeep(call.result)
        /\ call.result.reads \cap FacetStores = {}

\* C5, amended: TooDeep is the answer of Filter::from_str to an expression
\* whose tree has a node deeper than MAX_FILTER_DEPTH; Filter::evaluate
\* makes no depth check and never fails with TooDeep, also on a deeper
\* Filter obtained by conversion from a FilterCondition.
C5_TooDeepOnlyWhenBuilding ==
    /\ (call.op = "from_str" /\ call.arg.parse = "Some"
            /\ FilterDepth(call.arg.condition) > MAX_FILTER_DEPTH)
          => IsTooDeep(call.result)
    /\ IsEvaluate => ~IsTooDeep(call.result)

C5_Witness ==
    /\ IsEvaluate
    /\ FilterDepth(call.arg) > MAX_FILTER_DEPTH
    /\ call.result.ok
    /\ call.result.bitmap # {}
    /\ call.result.reads \cap FacetStores # {}

(***************************************************************************)
(* C6                                                                      *)
(***************************************************************************)
\* the conditions of the expressions of a list that are not blank
RECURSIVE ConditionsOf(_)
ConditionsOf(rules) ==
    IF rules = <<>> THEN <<>>
    ELSE LET p == FilterCondition_parse(Head(rules))
         IN (IF p.parse = "Some" THEN <<p.condition>> ELSE <<>>)
            \o ConditionsOf(Tail(rules))

\* the operands of the And that an array stands for
RECURSIVE OperandsOf(_)
OperandsOf(array) ==
    IF array = <<>> THEN <<>>
    ELSE LET cs == ConditionsOf(Head(array).rules)
         IN (IF Head(array).left /\ Len(cs) > 1 THEN <<Or(cs)>> ELSE cs)
            \o OperandsOf(Tail(array))

TreeOf(array) ==
    IF Len(OperandsOf(array)) = 1 THEN OperandsOf(array)[1]
    ELSE And(OperandsOf(array))

WellFormed(array) ==
    \A i \in 1..Len(array) : \A j \in 1..Len(array[i].rules) :
        FilterCondition_parse(array[i].rules[j]).parse # "Err"

IsNotFilterableError(result, fields) ==
    /\ ~result.ok
    /\ result.error.kind = "AttributeNotFilterable"
    /\ result.error.attribute \in fields
    /\ ~Filterable(result.error.attribute)
    /\ result.reads \subseteq SettingsStores

\* C7 as stated: evaluate returns AttributeNotFilterable, and evaluates no
\* node, whenever a field referenced anywhere in the tree is not filterable.
C7_NotFilterableAnywhere ==
    (IsEvaluate /\ \E field \in AllFields(call.arg) : ~Filterable(field)) =>
        IsNotFilterableError(call.result, AllFields(call.arg))

\* C7, amended: evaluate returns AttributeNotFilterable, and evaluates no
\* node, whenever a field referenced by a node at depth MAX_FILTER_DEPTH or
\* less (the root being at depth 1) is not filterable, wherever that node
\* sits and whatever error another node would raise.
C7_NotFilterableWithinMaxDepth ==
    (IsEvaluate
        /\ \E field \in FieldsWithin(call.arg, MAX_FILTER_DEPTH) : ~Filterable(field)) =>
        IsNotFilterableError(call.result, FieldsWithin(call.arg, MAX_FILTER_DEPTH))

\* the field sits in a branch that the early exit of the And would skip
C7_Witness ==
    /\ IsEvaluate
    /\ IsPair(call.arg)
    /\ call.arg.kind = "And"
    /\ AllFields(call.arg.subfilters[1]) = {"f"}
    /\ AllFields(call.arg.subfilters[2]) = {"g"}
    /\ Filterable("f")
    /\ ~Filterable("g")
    /\ inner_evaluate(call.arg.subfilters[1], NoUniverse).ok
    /\ inner_evaluate(call.arg.subfilters[1], NoUniverse).bitmap = {}
    /\ IsNotFilterableError(call.result, {"g"})

(***************************************************************************)
(* C8                                                                      *)
(***************************************************************************)
InFieldsIdsMap(field) == \E i \in 1..Len(fields_ids_map) : fields_ids_map[i] = field

HasRule(field) ==
    \E i \in 1..Len(filterable_attributes_rules) :
        filterable_attributes_rules[i].pattern = field

\* C8: inner_evaluate of an In or Condition node whose field is not in the
\* fields-ids map, or matches no rule, returns the empty bitmap and no
\* error, whatever the operator.
C8_UnknownFieldIsEmpty ==
    (IsInner /\ IsLeaf(call.arg)
        /\ (~InFieldsIdsMap(call.arg.fid) \/ ~HasRule(call.arg.fid))) =>
        /\ call.result.ok
        /\ call.result.bitmap = {}

\* documents hold the field, no rule matches it, the universe is not empty
C8_Witness ==
    /\ IsInner
    /\ IsLeaf(call.arg)
    /\ InFieldsIdsMap(call.arg.fid)
    /\ ~HasRule(call.arg.fid)
    /\ \E d \in DOMAIN documents : documents[d][call.arg.fid].kind = "values"
    /\ filterable_attributes_rules # <<>>
    /\ ~(call.universe.some /\ call.universe.set = {})
    /\ call.result = Ok({}, {})

(***************************************************************************)
(* C9                                                                      *)
(***************************************************************************)
\* the operator an In or Condition node gives to evaluate_operator first
FirstOperator(c) == IF c.kind = "In" THEN Equal(c.els[1]) ELSE c.op

ReachesOperator(c, universe) ==
    /\ IsLeaf(c)
    /\ c.kind = "In" => c.els # <<>>
    /\ ~(universe.some /\ universe.set = {})
    /\ InFieldsIdsMap(c.fid)
    /\ HasRule(c.fid)

\* the rule that matches a field: the first with its name
RuleOf(field) ==
    CHOOSE i \in 1..Len(filterable_attributes_rules) :
        /\ filterable_attributes_rules[i].pattern = field
        /\ \A j \in 1..(i - 1) : filterable_attributes_rules[j].pattern # field

\* the feature an operator requires is missing
Lacks(features, cond) ==
    \/ cond \in {"GreaterThan", "GreaterThanOrEqual", "LowerThan",
                 "LowerThanOrEqual", "Between"} /\ ~features.comparison
    \/ cond = "Empty" /\ ~features.empty
    \/ cond = "Null" /\ ~features.null
    \/ cond = "Exists" /\ ~features.exists
    \/ cond \in {"Equal", "NotEqual"} /\ ~features.equality

\* C9: when the rule that matches a known field lacks the feature the
\* operator requires, evaluate_operator fails with FilterOperatorNotAllowed
\* naming the field, the operator, the operators the rule allows and the
\* index of the rule, and has read no facet or docset store.
C9_OperatorNotAllowed ==
    (IsInner /\ ReachesOperator(call.arg, call.universe)
        /\ Lacks(filterable_attributes_rules[RuleOf(call.arg.fid)].features,
                 FirstOperator(call.arg).cond)) =>
        /\ ~call.result.ok
        /\ call.result.error =
              FilterOperatorNotAllowed(
                  call.arg.fid,
                  allowed_filter_operators(
                      filterable_attributes_rules[RuleOf(call.arg.fid)].features),
                  operator_name(FirstOperator(call.arg)),
                  RuleOf(call.arg.fid) - 1)
        /\ call.result.reads \cap (FacetStores \cup DocsetStores) = {}

\* a comparison on a field that holds numbers and whose rule, the second
\* of the list, lacks the comparison feature
C9_Witness ==
    /\ IsInner
    /\ ReachesOperator(call.arg, call.universe)
    /\ FirstOperator(call.arg).cond = "GreaterThan"
    /\ RuleOf(call.arg.fid) = 2
    /\ ~filterable_attributes_rules[2].features.comparison
    /\ \E e \in facet_id_f64_docids :
          e.field_id = field_id_of(fields_ids_map, call.arg.fid).id
    /\ ~call.result.ok
    /\ call.result.error.kind = "FilterOperatorNotAllowed"
    /\ call.result.error.rule_index = 1

(***************************************************************************)
(* C10                                                                     *)
(***************************************************************************)
\* C10: a Contains or StartsWith condition on a field whose rule does not
\* permit equality fails with FilterOperatorNotAllowed.
C10_ContainsNeedsEquality ==
    (IsInner /\ ReachesOperator(call.arg, call.universe)
        /\ call.arg.kind = "Condition"
        /\ call.arg.op.cond \in {"Contains", "StartsWith"}
        /\ ~filterable_attributes_rules[RuleOf(call.arg.fid)].features.equality) =>
        /\ ~call.result.ok
        /\ call.result.error.kind = "FilterOperatorNotAllowed"

(***************************************************************************)
(* C11                                                                     *)
(***************************************************************************)
IsCondition(c, conds) == c.kind = "Condition" /\ c.op.cond \in conds

FieldIdOf(name) == CHOOSE i \in 0..(Len(fields_ids_map) - 1) : fields_ids_map[i + 1] = name

\* the documents of the level 0 group of a store with this field and key
GroupDocs(db, name, key) ==
    {d \in documents_ids :
        \E e \in db : /\ e.field_id = FieldIdOf(name)
                      /\ e.level = 0
                      /\ e.left_bound = key
                      /\ d \in e.bitmap}

\* C11: on a known field that permits equality, Equal(v) returns the
\* string group of normalize(v) together with, when v parses as a finite
\* float, the number group of that number; a group that does not exist
\* adds nothing and the universe plays no part.
C11_EqualIsUnionOfGroups ==
    (IsInner /\ ReachesOperator(call.arg, call.universe)
        /\ IsCondition(call.arg, {"Equal"})
        /\ filterable_attributes_rules[RuleOf(call.arg.fid)].features.equality) =>
        LET v == call.arg.op.val
            number == parse_finite_float(v)
        IN /\ call.result.ok
           /\ call.result.bitmap =
                 GroupDocs(facet_id_string_docids, call.arg.fid, normalize_facet(v))
                 \cup (IF number.some
                       THEN GroupDocs(facet_id_f64_docids, call.arg.fid, number.num)
                       ELSE {})

\* both groups exist and the result leaves the universe
C11_Witness ==
    /\ IsInner
    /\ ReachesOperator(call.arg, call.universe)
    /\ IsCondition(call.arg, {"Equal"})
    /\ GroupDocs(facet_id_string_docids, call.arg.fid,
                 normalize_facet(call.arg.op.val)) # {}
    /\ parse_finite_float(call.arg.op.val).some
    /\ GroupDocs(facet_id_f64_docids, call.arg.fid,
                 parse_finite_float(call.arg.op.val).num) # {}
    /\ call.universe.some
    /\ ~(call.result.bitmap \subseteq call.universe.set)
    /\ Cardinality(call.result.bitmap) = 2

\* a value that is no number, found under its normalised form
C11_WitnessString ==
    /\ IsInner
    /\ ReachesOperator(call.arg, call.universe)
    /\ IsCondition(call.arg, {"Equal"})
    /\ ~parse_finite_float(call.arg.op.val).some
    /\ normalize_facet(call.arg.op.val) # call.arg.op.val
    /\ call.result.ok
    /\ call.result.bitmap # {}

(***************************************************************************)
(* C12                                                                     *)
(***************************************************************************)
EqualOf(c) == evaluate(Condition(c.fid, Equal(c.op.val)))

\* C12 as stated: whenever `f != v` passes the preflight it evaluates to
\* all the documents minus the result of `f = v`.
C12_NotEqualIsComplement ==
    (IsEvaluate /\ IsCondition(call.arg, {"NotEqual"}) /\ Filterable(call.arg.fid)) =>
        \/ ~call.result.ok /\ ~EqualOf(call.arg).ok
        \/ /\ call.result.ok
           /\ EqualOf(call.arg).ok
           /\ call.result.bitmap = documents_ids \ EqualOf(call.arg).bitmap

\* C12, amended: for a field that passes the preflight and is in the
\* fields-ids map, `f != v` evaluates to all the documents minus the result
\* of `f = v` (and fails when `f = v` fails), so it returns the documents
\* without a value for f; for a field that is not in the fields-ids map it
\* evaluates to the empty bitmap.
C12_NotEqualIsComplementOnKnownField ==
    (IsEvaluate /\ IsCondition(call.arg, {"NotEqual"}) /\ Filterable(call.arg.fid)) =>
        IF InFieldsIdsMap(call.arg.fid)
        THEN \/ ~call.result.ok /\ ~EqualOf(call.arg).ok
             \/ /\ call.result.ok
                /\ EqualOf(call.arg).ok
                /\ call.result.bitmap = documents_ids \ EqualOf(call.arg).bitmap
        ELSE call.result.ok /\ call.result.bitmap = {}

\* a document without a value for the field is returned
C12_Witness ==
    /\ IsEvaluate
    /\ IsCondition(call.arg, {"NotEqual"})
    /\ InFieldsIdsMap(call.arg.fid)
    /\ call.result.ok
    /\ EqualOf(call.arg).bitmap # {}
    /\ \E d \in call.result.bitmap : documents[d][call.arg.fid].kind # "values"

(***************************************************************************)
(* C13                                                                     *)
(***************************************************************************)
RangeConds == {"GreaterThan", "GreaterThanOrEqual", "LowerThan", "LowerThanOrEqual",
               "Between"}

LowerToken(op) == IF op.cond = "Between" THEN op.from ELSE op.val

UpperToken(op) == IF op.cond = "Between" THEN op.to ELSE op.val

BothParse(op) ==
    parse_finite_float(LowerToken(op)).some /\ parse_finite_float(UpperToken(op)).some

\* a number satisfies a range operator whose values parse
NumberWithin(op, x) ==
    LET lo == parse_finite_float(LowerToken(op)).num
        hi == parse_finite_float(UpperToken(op)).num
    IN CASE op.cond = "GreaterThan" -> x > lo
         [] op.cond = "GreaterThanOrEqual" -> x >= lo
         [] op.cond = "LowerThan" -> x < hi
         [] op.cond = "LowerThanOrEqual" -> x <= hi
         [] op.cond = "Between" -> lo <= x /\ x <= hi

\* a facet string satisfies a range operator, by the raw value of the token
StringWithin(op, x) ==
    CASE op.cond = "GreaterThan" -> StrLess(op.val, x)
      [] op.cond = "GreaterThanOrEqual" -> StrLeq(op.val, x)
      [] op.cond = "LowerThan" -> StrLess(x, op.val)
      [] op.cond = "LowerThanOrEqual" -> StrLeq(x, op.val)
      [] op.cond = "Between" -> StrLeq(op.from, x) /\ StrLeq(x, op.to)

NumberScan(name, op) ==
    {d \in documents_ids :
        \E e \in facet_id_f64_docids :
            /\ e.field_id = FieldIdOf(name) /\ e.level = 0
            /\ NumberWithin(op, e.left_bound) /\ d \in e.bitmap}

StringScan(name, op) ==
    {d \in documents_ids :
        \E e \in facet_id_string_docids :
            /\ e.field_id = FieldIdOf(name) /\ e.level = 0
            /\ StringWithin(op, e.left_bound) /\ d \in e.bitmap}

\* C13: a range operator whose value does not parse as a finite float (for
\* TO, one of whose two values does not) leaves the number store alone and
\* returns the string scan; when the values parse it returns the number
\* scan together with the string scan on the raw values.
C13_RangeIsNumberAndStringScan ==
    (IsInner /\ ReachesOperator(call.arg, call.universe)
        /\ IsCondition(call.arg, RangeConds)
        /\ filterable_attributes_rules[RuleOf(call.arg.fid)].features.comparison) =>
        /\ call.result.ok
        /\ IF BothParse(call.arg.op)
           THEN call.result.bitmap =
                   NumberScan(call.arg.fid, call.arg.op)
                   \cup StringScan(call.arg.fid, call.arg.op)
           ELSE /\ call.result.bitmap = StringScan(call.arg.fid, call.arg.op)
                /\ "facet_id_f64_docids" \notin call.result.reads

\* TO with one value that parses: numbers lie between the raw values as
\* numbers would, and only the string is returned
C13_Witness ==
    /\ IsInner
    /\ ReachesOperator(call.arg, call.universe)
    /\ IsCondition(call.arg, {"Between"})
    /\ parse_finite_float(call.arg.op.from).some
    /\ ~parse_finite_float(call.arg.op.to).some
    /\ \E e \in facet_id_f64_docids :
          /\ e.field_id = FieldIdOf(call.arg.fid)
          /\ e.left_bound >= parse_finite_float(call.arg.op.from).num
          /\ ~(e.bitmap \subseteq call.result.bitmap)
    /\ call.result.ok
    /\ call.result.bitmap # {}

\* values that parse: a document found by the number scan only and one found
\* by the string scan only
C13_WitnessUnion ==
    /\ IsInner
    /\ ReachesOperator(call.arg, call.universe)
    /\ IsCondition(call.arg, RangeConds)
    /\ BothParse(call.arg.op)
    /\ NumberScan(call.arg.fid, call.arg.op) \ StringScan(call.arg.fid, call.arg.op) # {}
    /\ StringScan(call.arg.fid, call.arg.op) \ NumberScan(call.arg.fid, call.arg.op) # {}
    /\ call.result.ok

(***************************************************************************)
(* C14                                                                     *)
(***************************************************************************)
IsGeo(c) == c.kind \in {"GeoLowerThan", "GeoBoundingBox"}

\* the call evaluated its node: inner_evaluate was not given an empty universe
NodeEvaluated ==
    IsEvaluate \/ (IsInner /\ ~(call.universe.some /\ call.universe.set = {}))

GeoEnabled ==
    \E i \in 1..Len(filterable_attributes_rules) :
        filterable_attributes_rules[i].pattern = "_geo"

FilterablePatterns ==
    {filterable_attributes_rules[i].pattern :
        i \in {k \in 1..Len(filterable_attributes_rules) :
                  filterable_attributes_rules[k].features.filterable}}

\* C14: on an index that is not geo-enabled, a GeoLowerThan and a
\* GeoBoundingBox node fail with AttributeNotFilterable naming _geo and
\* listing the filterable patterns, whatever their coordinates are: out of
\* range, not a number, or a top below the bottom.
C14_GeoNeedsGeoFiltering ==
    (NodeEvaluated /\ IsGeo(call.arg) /\ ~GeoEnabled) =>
        /\ ~call.result.ok
        /\ call.result.error = AttributeNotFilterable("_geo", FilterablePatterns)

\* _geoRadius(-100, 150, 10) with f the only filterable attribute
C14_Witness ==
    /\ IsEvaluate
    /\ call.arg = GeoLowerThan(<<TokenOf(-100), TokenOf(150)>>, TokenOf(10))
    /\ filterable_attributes_rules = <<Rule("f", AllFeatures)>>
    /\ documents # <<>>
    /\ call.result.error = AttributeNotFilterable("_geo", {"f"})

(***************************************************************************)
(* C15                                                                     *)
(***************************************************************************)
\* the coordinates of a geo node in the order they are validated
Coordinates(c) ==
    IF c.kind = "GeoLowerThan"
    THEN <<[which |-> "Lat", token |-> c.point[1]],
           [which |-> "Lng", token |-> c.point[2]]>>
    ELSE <<[which |-> "Lat", token |-> c.top_right_point[1]],
           [which |-> "Lng", token |-> c.top_right_point[2]],
           [which |-> "Lat", token |-> c.bottom_left_point[1]],
           [which |-> "Lng", token |-> c.bottom_left_point[2]]>>

NumberOf(token) == parse_finite_float(token).num

AreNumbers(cs) == \A i \in 1..Len(cs) : parse_finite_float(cs[i].token).some

OutOfRange(coordinate) ==
    LET x == NumberOf(coordinate.token)
    IN IF coordinate.which = "Lat" THEN x < -90 \/ x > 90 ELSE x < -180 \/ x > 180

BadGeoOf(coordinate) ==
    IF coordinate.which = "Lat"
    THEN [kind |-> "BadGeo", which |-> "Lat", lat |-> NumberOf(coordinate.token)]
    ELSE [kind |-> "BadGeo", which |-> "Lng", lng |-> NumberOf(coordinate.token)]

TopIsBelowBottom(c) ==
    /\ c.kind = "GeoBoundingBox"
    /\ NumberOf(c.top_right_point[1]) < NumberOf(c.bottom_left_point[1])

\* C15: on a geo-enabled index, a geo node whose coordinates are numbers
\* fails with BadGeo Lat or Lng of the first coordinate, in the order
\* (top-right) latitude, longitude, (bottom-left latitude, longitude), that
\* lies outside [-90, 90] resp. [-180, 180], the bounds being accepted; it
\* fails with BoundingBoxTopIsBelowBottom exactly when it is a bounding box
\* with all four in range and the top latitude below the bottom latitude;
\* no other node fails with BadGeo.
C15_BadGeoByFirstCoordinateOutOfRange ==
    (NodeEvaluated /\ IsGeo(call.arg) /\ GeoEnabled
        /\ AreNumbers(Coordinates(call.arg))) =>
        LET cs == Coordinates(call.arg)
            bad == {i \in 1..Len(cs) : OutOfRange(cs[i])}
        IN IF bad # {}
           THEN call.result.error = BadGeoOf(cs[CHOOSE i \in bad : \A j \in bad : i <= j])
           ELSE IF TopIsBelowBottom(call.arg)
           THEN call.result.error =
                    [kind |-> "BadGeo", which |-> "BoundingBoxTopIsBelowBottom",
                     top |-> NumberOf(call.arg.top_right_point[1]),
                     bottom |-> NumberOf(call.arg.bottom_left_point[1])]
           ELSE call.result.error.kind # "BadGeo"

\* _geoBoundingBox([30, 10], [91, 150]): the top is below the bottom, and
\* the bottom latitude is out of range
C15_Witness ==
    /\ IsEvaluate
    /\ GeoEnabled
    /\ call.arg = GeoBoundingBox(<<TokenOf(30), TokenOf(10)>>,
                                 <<TokenOf(91), TokenOf(150)>>)
    /\ call.result.error = BadGeoLat(91)

\* the bounds are accepted: _geoRadius(90, 180, 0) finds no document
C15_WitnessBounds ==
    /\ IsEvaluate
    /\ GeoEnabled
    /\ geo_rtree.some
    /\ call.arg = GeoLowerThan(<<TokenOf(90), TokenOf(180)>>, TokenOf(0))
    /\ call.result.ok
    /\ call.result.bitmap = {}

(***************************************************************************)
(* C16                                                                     *)
(***************************************************************************)
IsTextArray(array) ==
    \A i \in 1..Len(array) : \A j \in 1..Len(array[i].rules) :
        array[i].rules[j].parse = "Text"

Parenthesised(words) == <<"(">> \o words \o <<")">>

\* the texts of a list joined by a keyword
RECURSIVE JoinedBy(_, _)
JoinedBy(keyword, texts) ==
    IF texts = <<>> THEN <<>>
    ELSE IF Len(texts) = 1 THEN texts[1]
    ELSE texts[1] \o <<keyword>> \o JoinedBy(keyword, Tail(texts))

\* the texts of a list of strings that are not blank, each in parentheses
RemainingOf(rules) ==
    LET kept == SelectSeq(rules, LAMBDA r : r.words # <<>>)
    IN [i \in 1..Len(kept) |-> Parenthesised(kept[i].words)]

\* the expression an array corresponds to: its strings in parentheses,
\* those of an inner array joined by OR, the elements joined by AND
CorrespondingExpression(array) ==
    LET alternatives == [i \in 1..Len(array) |-> JoinedBy("OR", RemainingOf(array[i].rules))]
        kept == SelectSeq(alternatives, LAMBDA words : words # <<>>)
    IN Text(JoinedBy("AND", [i \in 1..Len(kept) |-> Parenthesised(kept[i])]))

NothingRemains(array) ==
    \A i \in 1..Len(array) : RemainingOf(array[i].rules) = <<>>

\* C16: for an array of strings that each parse, from_array returns what
\* from_str returns for the corresponding expression (elements joined by
\* AND, the strings of an inner array by OR, blank strings skipped); the
\* tree has no Or around an inner array with one remaining condition and no
\* And around a single remaining element; the result is None exactly when
\* nothing remains.
C16_FromArrayIsFromStrOfJoined ==
    (call.op = "from_array" /\ IsTextArray(call.arg) /\ WellFormed(call.arg)) =>
        /\ call.result = from_str(CorrespondingExpression(call.arg))
        /\ (call.result = OkNone) <=> NothingRemains(call.arg)
        /\ ~NothingRemains(call.arg) => call.result = OkSome(TreeOf(call.arg))

\* ["f = 1", ["g = 1", "f != 1"]] and f = 1 AND (g = 1 OR f != 1)
C16_Witness ==
    /\ call.op = "from_array"
    /\ call.arg = <<Right(Text(<<"f = 1">>)),
                    Left(<<Text(<<"g = 1">>), Text(<<"f != 1">>)>>)>>
    /\ call.result =
          from_str(Text(<<"f = 1", "AND", "(", "g = 1", "OR", "f != 1", ")">>))
    /\ call.result.condition =
          And(<<Condition("f", Equal(S1)),
                Or(<<Condition("g", Equal(S1)), Condition("f", NotEqual(S1))>>)>>)

(***************************************************************************)
(* C17                                                                     *)
(***************************************************************************)
IsWords == call.op = "extract_word_docids"

\* extract_word_docids has returned its three streams
WordsExtracted == IsWords /\ call.result.ok

ExtractWords == {Sa, Sb, Sab, Seacute}

\* the documents of a corpus that hold the word in a field that puts it in
\* the exact stream (exact = TRUE) or in the normal stream
DocsWithWord(corpus, settings, word, exact) ==
    {d \in DOMAIN corpus :
        \E fid \in ExtractFids :
            /\ \E i \in 1..Len(corpus[d][fid]) : corpus[d][fid][i].word = word
            /\ (fid \in settings.exact_attributes \/ word \in settings.exact_words)
                   = exact}

\* the doc ids a stream carries for a word on a side
SideOf(stream, word, side) ==
    UNION {IF side = "Deletion" THEN stream[i].value.deletion.docids
           ELSE stream[i].value.addition.docids
           : i \in {k \in 1..Len(stream) : stream[k].key = word}}

StreamOf(exact) ==
    IF exact THEN call.result.streams.exact_word_docids
    ELSE call.result.streams.word_docids

\* C17: for every word and each of the normal and exact streams that
\* extract_word_docids returns, the documents that held the word before the
\* update, less the Deletion doc ids of the stream, plus its Addition doc
\* ids, are the documents a rebuild from the documents after the update and
\* the new settings gives.
C17_DeladdGivesRebuild ==
    WordsExtracted =>
        \A word \in ExtractWords, exact \in BOOLEAN :
            (DocsWithWord(call.arg.old, call.arg.settings_diff.old, word, exact)
                 \ SideOf(StreamOf(exact), word, "Deletion"))
              \cup SideOf(StreamOf(exact), word, "Addition")
            = DocsWithWord(call.arg.new, call.arg.settings_diff.new, word, exact)

\* field 0 becomes exact while document 0 loses a word and document 1 stays
C17_Witness ==
    /\ IsWords
    /\ call.arg.settings_diff.old = Settings({}, {}, "ByWord")
    /\ call.arg.settings_diff.new = Settings({0}, {}, "ByWord")
    /\ call.arg.old = [d \in ExtractDocIds |-> Fields(<<At(0, Sa)>>, <<At(0, Sa)>>)]
    /\ call.arg.new[0] = Fields(<<>>, <<At(0, Sab)>>)
    /\ call.arg.new[1] = call.arg.old[1]
    /\ SideOf(call.result.streams.word_docids, Sa, "Deletion") = {0, 1}
    /\ SideOf(call.result.streams.word_docids, Sa, "Addition") = {1}
    /\ SideOf(call.result.streams.exact_word_docids, Sa, "Addition") = {1}

(***************************************************************************)
(* C19                                                                     *)
(***************************************************************************)
IsTrueChange(value) ==
    /\ value.deletion.some \/ value.addition.some
    /\ value.deletion.docids # value.addition.docids

\* C19: every record of word_docs, exact_word_docs and word_fid_docs is a
\* true change: it carries at least one side, and its Deletion and Addition
\* doc ids are not the same.
C19_EveryRecordIsATrueChange ==
    IsWords =>
        \A stream \in {call.result.streams.word_docids,
                        call.result.streams.exact_word_docids,
                        call.result.streams.word_fid_docids} :
            \A i \in 1..Len(stream) : IsTrueChange(stream[i].value)

(***************************************************************************)
(* C18                                                                     *)
(***************************************************************************)
IsPairs == call.op = "extract_word_pair_proximity_docids"

\* extract_word_pair_proximity_docids has returned its stream
PairsExtracted == IsPairs /\ call.result.ok

SideNames == {"Deletion", "Addition"}

SideIn(value, side) == IF side = "Deletion" THEN value.deletion ELSE value.addition

\* the index of the first zero byte of a sequence of bytes
FirstZero(bytes) == CHOOSE i \in 1..Len(bytes) : bytes[i] = 0 /\ \A j \in 1..(i - 1) : bytes[j] # 0

\* the (doc, w1, w2, prox) that the stream carries on a side
Emitted(stream, side) ==
    UNION {LET key == stream[i].key
               words == Tail(key)
               zero == FirstZero(words)
           IN {[doc |-> d, w1 |-> SubSeq(words, 1, zero - 1),
                w2 |-> SubSeq(words, zero + 1, Len(words)), prox |-> key[1]]
                  : d \in SideIn(stream[i].value, side).docids}
           : i \in 1..Len(stream)}

\* the document of a record
DocumentOf(record) == from_be_bytes(SubSeq(record.key, 1, 4))

\* the (w1, w2, p2 - p1) of a word w1 at p1 in the record r1 and a word w2
\* at p2 > p1 in the record r2, less than MAX_DISTANCE apart
Distances(r1, r2, side) ==
    LET words1 == SideIn(r1.value, side).words
        words2 == SideIn(r2.value, side).words
    IN {<<words1[ij[1]].word, words2[ij[2]].word,
          words2[ij[2]].position - words1[ij[1]].position>> :
            ij \in {p \in (1..Len(words1)) \X (1..Len(words2)) :
                       /\ words1[p[1]].position < words2[p[2]].position
                       /\ words2[p[2]].position - words1[p[1]].position
                              < MAX_DISTANCE}}

MinOf(S) == CHOOSE m \in S : \A x \in S : m <= x

\* the (doc, w1, w2, min prox) of the pairs of records in `together`
Expected(records, side, together(_, _)) ==
    LET found ==
            UNION {{[doc |-> DocumentOf(records[p[1]]), w1 |-> t[1], w2 |-> t[2],
                     prox |-> t[3]]
                       : t \in Distances(records[p[1]], records[p[2]], side)}
                   : p \in {q \in (1..Len(records)) \X (1..Len(records)) :
                               /\ DocumentOf(records[q[1]]) = DocumentOf(records[q[2]])
                               /\ together(q[1], q[2])}}
    IN {[f EXCEPT !.prox = MinOf({g.prox : g \in {h \in found :
                                                     /\ h.doc = f.doc
                                                     /\ h.w1 = f.w1
                                                     /\ h.w2 = f.w2}})]
           : f \in found}

SameRecord(i, j) == i = j

AnyRecords(i, j) == TRUE

\* the side is extracted: the call does not return early and the precision
\* of the side is by word
Extracted(side) ==
    /\ ~(call.arg.settings_diff.settings_update_only
            /\ ~call.arg.settings_diff.reindex_proximities)
    /\ (IF side = "Deletion" THEN call.arg.settings_diff.old
        ELSE call.arg.settings_diff.new).proximity_precision = "ByWord"

\* C18 as stated: the records emitted are, per document and ordered pair
\* of words, one record at the least proximity over all the position pairs
\* of the two words in the document, its words being those of all its
\* input records.
C18_MinOverDocument ==
    PairsExtracted =>
        \A side \in SideNames :
            Extracted(side) =>
                Emitted(call.result.stream, side)
                    = Expected(call.arg.docid_word_positions, side, AnyRecords)

\* C18: in the stream returned, on each side that is extracted, the
\* records emitted are, per document and ordered pair of words, one record
\* at the least proximity
\* over the position pairs of the two words within one input record of the
\* document, the least being taken over all its records; a side that is
\* not extracted emits nothing.
C18_MinOverEachRecord ==
    PairsExtracted =>
        \A side \in SideNames :
            Emitted(call.result.stream, side)
                = IF Extracted(side)
                  THEN Expected(call.arg.docid_word_positions, side, SameRecord)
                  ELSE {}

\* document 0 has a in one field and b in another, document 1 has the pair
\* in two fields at different distances
C18_Witness ==
    /\ IsPairs
    /\ Extracted("Addition")
    /\ call.arg.new[0] = Fields(<<At(0, Sa)>>, <<At(1, Sb)>>)
    /\ call.arg.new[1] = Fields(<<At(0, Sa), At(5, Sb)>>, <<At(0, Sa), At(1, Sb)>>)
    /\ call.arg.old = [d \in ExtractDocIds |-> NoDocument]
    /\ Emitted(call.result.stream, "Addition")
          = {[doc |-> 1, w1 |-> Sa, w2 |-> Sb, prox |-> 1]}

(***************************************************************************)
(* C20                                                                     *)
(***************************************************************************)
\* C20: the stream returned by extract_word_pair_proximity_docids is
\* strictly ascending in the byte order of its keys, so no key is repeated;
\* every key starts with its proximity, a byte of 1..MAX_DISTANCE-1, and
\* these first bytes never decrease along the stream.
C20_StreamIsStrictlyAscending ==
    IsPairs =>
        LET stream == call.result.stream
        IN /\ \A i \in 1..(Len(stream) - 1) :
                  /\ StrLess(stream[i].key, stream[i + 1].key)
                  /\ stream[i].key[1] <= stream[i + 1].key[1]
           /\ \A i \in 1..Len(stream) : stream[i].key[1] \in 1..(MAX_DISTANCE - 1)

\* several sorters hold keys, one of them several, and the words of a key
\* of a later sorter come before those of a key of an earlier one
C20_Witness ==
    /\ IsPairs
    /\ LET stream == call.result.stream
       IN /\ \E i \in 1..(Len(stream) - 1) :
                 /\ stream[i].key[1] < stream[i + 1].key[1]
                 /\ StrLess(Tail(stream[i + 1].key), Tail(stream[i].key))
          /\ \E i \in 1..(Len(stream) - 1) : stream[i].key[1] = stream[i + 1].key[1]
          /\ \E i \in 1..Len(stream) :
                 Cardinality(stream[i].value.addition.docids) > 1

(***************************************************************************)
(* C21                                                                     *)
(***************************************************************************)
\* the call is inner_evaluate on an And node with children
IsInnerAnd ==
    /\ IsInner
    /\ call.arg.kind = "And"
    /\ call.arg.subfilters # <<>>

\* what each child of the And gives when evaluated alone under the universe
\* of the call
ChildrenAlone ==
    [i \in 1..Len(call.arg.subfilters) |->
        inner_evaluate(call.arg.subfilters[i], call.universe)]

AllOk(results) == \A i \in 1..Len(results) : results[i].ok

\* the documents that are in every bitmap of a non-empty sequence of results
Intersection(results) ==
    {d \in results[1].bitmap : \A i \in 1..Len(results) : d \in results[i].bitmap}

\* C21 as stated: an And whose children all evaluate without error returns
\* the intersection of the results each child gives alone under the
\* universe of the And.
C21_AndIsIntersectionOfChildrenAlone ==
    (IsInnerAnd /\ AllOk(ChildrenAlone)) =>
        /\ call.result.ok
        /\ call.result.bitmap = Intersection(ChildrenAlone)

\* C21: for an And whose children all evaluate without error when each is
\* evaluated alone under the universe of the And: with no universe the And
\* returns without error the intersection of the results of the children;
\* under a universe U the And can fail, a child after the first being
\* evaluated under a running intersection that is not within U, and when
\* it returns without error its result and that intersection hold the same
\* documents of U.
C21_AndIsIntersectionWithinUniverse ==
    (IsInnerAnd /\ AllOk(ChildrenAlone)) =>
        IF call.universe.some
        THEN call.result.ok =>
                 call.result.bitmap \cap call.universe.set
                     = Intersection(ChildrenAlone) \cap call.universe.set
        ELSE /\ call.result.ok
             /\ call.result.bitmap = Intersection(ChildrenAlone)

\* an And of a condition and a Not, under a universe that holds one of the
\* two documents the And returns
C21_Witness ==
    /\ IsInnerAnd
    /\ AllOk(ChildrenAlone)
    /\ call.universe.some
    /\ \E i \in 2..Len(call.arg.subfilters) : call.arg.subfilters[i].kind = "Not"
    /\ Cardinality(call.result.bitmap) = 2
    /\ Cardinality(call.result.bitmap \cap call.universe.set) = 1

\* an And fails under a universe though each child evaluates alone under
\* it: the condition that comes first returns a document outside the
\* universe, and the And that comes second no longer ends early
C21_WitnessAndFails ==
    /\ IsInnerAnd
    /\ AllOk(ChildrenAlone)
    /\ call.universe.some
    /\ ~call.result.ok
    /\ call.result.error.kind = "FilterOperatorNotAllowed"
    /\ call.arg.subfilters[1] = Condition("f", Exists)
    /\ ~ChildrenAlone[1].bitmap \subseteq call.universe.set

\* the same And with no universe
C21_WitnessNoUniverse ==
    /\ IsInnerAnd
    /\ AllOk(ChildrenAlone)
    /\ ~call.universe.some
    /\ \E i \in 2..Len(call.arg.subfilters) : call.arg.subfilters[i].kind = "Not"
    /\ call.result.bitmap # {}
    /\ \E i \in 1..Len(ChildrenAlone) : ChildrenAlone[i].bitmap # call.result.bitmap


(***************************************************************************)
(* C22                                                                     *)
(***************************************************************************)
\* the loop of the And arm with `bitmap = result` in place of
\* `bitmap &= result`, from the i-th subfilter on
RECURSIVE AssignFold(_, _, _)
AssignFold(subfilters, i, bitmap) ==
    IF i > Len(subfilters) \/ bitmap = {} THEN bitmap
    ELSE AssignFold(subfilters, i + 1,
                    inner_evaluate(subfilters[i], SomeUniverse(bitmap)).bitmap)

\* what the And of the call would return with the assignment
AndWithAssignment ==
    AssignFold(call.arg.subfilters, 2,
               inner_evaluate(call.arg.subfilters[1], call.universe).bitmap)

\* every child of the And of the call after the first is a Not node
LaterChildrenAreNots ==
    \A i \in 2..Len(call.arg.subfilters) : call.arg.subfilters[i].kind = "Not"

\* C22 as stated: for every node and every B, inner_evaluate(node, Some(B))
\* is a subset of B, and an And returns the same bitmap with `B = result`
\* in place of `B &= result`.
C22_IntersectionIsRedundant ==
    /\ (IsInner /\ call.universe.some /\ call.result.ok) =>
           call.result.bitmap \subseteq call.universe.set
    /\ (IsInnerAnd /\ call.result.ok) =>
           call.result.bitmap = AndWithAssignment

\* C22: for every Not node and every B, inner_evaluate(node, Some(B)) is a
\* subset of B, and an And whose children after the first are all Not
\* nodes returns the same bitmap with `B = result` in place of
\* `B &= result`.
C22_IntersectionIsRedundantForNot ==
    /\ (IsInner /\ call.universe.some /\ call.result.ok /\ call.arg.kind = "Not") =>
           call.result.bitmap \subseteq call.universe.set
    /\ (IsInnerAnd /\ call.result.ok /\ LaterChildrenAreNots) =>
           call.result.bitmap = AndWithAssignment

\* an And of a condition and a Not that returns some of the documents of
\* its first child and not all of them
C22_Witness ==
    /\ IsInnerAnd
    /\ call.result.ok
    /\ Len(call.arg.subfilters) > 1
    /\ LaterChildrenAreNots
    /\ call.arg.subfilters[1].kind = "Condition"
    /\ call.result.bitmap # {}
    /\ call.result.bitmap # inner_evaluate(call.arg.subfilters[1], call.universe).bitmap

\* an And of two conditions where the assignment would return a document
\* that the And does not return
C22_WitnessNeeded ==
    /\ IsInnerAnd
    /\ call.result.ok
    /\ \A i \in 1..Len(call.arg.subfilters) : call.arg.subfilters[i].kind = "Condition"
    /\ AndWithAssignment \ call.result.bitmap # {}


(***************************************************************************)
(* C23                                                                     *)
(***************************************************************************)
\* the call is inner_evaluate on a Not node, under no universe or under a
\* universe that holds a document
IsInnerNot ==
    /\ IsInner
    /\ call.arg.kind = "Not"
    /\ ~(call.universe.some /\ call.universe.set = {})

\* the child of a Not node
ChildOf(node) == IF node.n = 1 THEN node.child ELSE NotN(node.n - 1, node.child)

\* the result of the call is what the Not arm makes of the result `r` of
\* its child
NotOf(r) ==
    IF r.ok
    THEN /\ call.result.ok
         /\ call.result.bitmap =
                (IF call.universe.some THEN call.universe.set ELSE documents_ids)
                    \ r.bitmap
    ELSE /\ ~call.result.ok
         /\ call.result.error = r.error

\* C23 as stated: the child of a Not node is evaluated with no universe,
\* and the node returns the universe minus the result of the child when a
\* universe is set, else all the documents minus the result of the child.
C23_ChildWithoutUniverse ==
    IsInnerNot => NotOf(inner_evaluate(ChildOf(call.arg), NoUniverse))

\* C23: the child of a Not node is evaluated with the universe of the node,
\* and the node returns the universe minus the result of the child when a
\* universe is set, else all the documents minus the result of the child;
\* whenever the child also evaluates without error with no universe, that
\* result gives the same bitmap.
C23_ChildUnderSameUniverse ==
    IsInnerNot =>
        /\ NotOf(inner_evaluate(ChildOf(call.arg), call.universe))
        /\ (call.result.ok /\ inner_evaluate(ChildOf(call.arg), NoUniverse).ok) =>
               NotOf(inner_evaluate(ChildOf(call.arg), NoUniverse))

\* a Not under a universe returns documents while its child, an And that
\* exits early under that universe, fails with no universe
C23_Witness ==
    /\ IsInnerNot
    /\ call.universe.some
    /\ call.result.ok
    /\ call.result.bitmap # {}
    /\ ~inner_evaluate(ChildOf(call.arg), NoUniverse).ok

\* a Not under a universe whose child returns a document outside that
\* universe and one inside it
C23_WitnessSameBitmap ==
    /\ IsInnerNot
    /\ call.universe.some
    /\ call.result.ok
    /\ inner_evaluate(ChildOf(call.arg), NoUniverse).ok
    /\ inner_evaluate(ChildOf(call.arg), NoUniverse).bitmap \ call.universe.set # {}
    /\ inner_evaluate(ChildOf(call.arg), NoUniverse).bitmap \cap call.universe.set # {}


(***************************************************************************)
(* C24                                                                     *)
(***************************************************************************)
\* what the node of the call gives with no universe
WithoutUniverse == inner_evaluate(call.arg, NoUniverse)

\* C24: under a universe U, when the evaluation under U and the one with no
\* universe both succeed, they return the same documents of U; under an
\* empty universe inner_evaluate returns the empty bitmap and reads no
\* store, whatever error the node raises otherwise.
C24_UniverseOnlyRestricts ==
    (IsInner /\ call.universe.some) =>
        /\ (call.result.ok /\ WithoutUniverse.ok) =>
               call.result.bitmap \cap call.universe.set
                   = WithoutUniverse.bitmap \cap call.universe.set
        /\ call.universe.set = {} => call.result = Ok({}, {})

\* a node under a universe that holds some of the documents it returns with
\* no universe, and returns other documents under it than with none
C24_Witness ==
    /\ IsInner
    /\ call.universe.some
    /\ call.result.ok
    /\ WithoutUniverse.ok
    /\ call.result.bitmap # WithoutUniverse.bitmap
    /\ call.result.bitmap # {}
    /\ WithoutUniverse.bitmap \ call.universe.set # {}

\* a node under an empty universe that fails with no universe
C24_WitnessEmptyUniverse ==
    /\ IsInner
    /\ call.universe = SomeUniverse({})
    /\ ~WithoutUniverse.ok
    /\ call.result.ok


(***************************************************************************)
(* C25                                                                     *)
(***************************************************************************)
\* the call evaluates a condition `f a TO b` where a and b are numbers
\* and a is greater than b
IsContradictoryRange ==
    /\ IsEvaluate \/ IsInner
    /\ call.arg.kind = "Condition"
    /\ call.arg.op.cond = "Between"
    /\ parse_finite_float(call.arg.op.from).some
    /\ parse_finite_float(call.arg.op.to).some
    /\ parse_finite_float(call.arg.op.from).num > parse_finite_float(call.arg.op.to).num

\* C25: a range condition `f a TO b` whose lower bound is numerically
\* greater than its upper bound returns no document, whatever the numeric
\* and string facet stores of f hold.
C25_ContradictoryRangeIsEmpty ==
    (IsContradictoryRange /\ call.result.ok) => call.result.bitmap = {}

\* `f 3 TO 1` returns no document on a field with numbers and strings: the
\* two tokens are in the same order as numbers and as strings
C25_WitnessSameOrder ==
    /\ IsContradictoryRange
    /\ call.result.ok
    /\ call.result.bitmap = {}
    /\ StrLess(call.arg.op.to, call.arg.op.from)
    /\ \E e \in facet_id_f64_docids : e.field_id = field_id_of(fields_ids_map, call.arg.fid).id
    /\ \E e \in facet_id_string_docids : e.field_id = field_id_of(fields_ids_map, call.arg.fid).id



(***************************************************************************)
(* C26                                                                     *)
(***************************************************************************)
IsValidBox(c) ==
    /\ c.kind = "GeoBoundingBox"
    /\ AreNumbers(Coordinates(c))
    /\ \A i \in 1..4 : ~OutOfRange(Coordinates(c)[i])
    /\ ~TopIsBelowBottom(c)

\* the documents with a number of the field between the two bounds
DocsWithin(fid, from, to) ==
    {d \in DOMAIN documents :
        \E x \in documents[d][fid].numbers : from <= x /\ x <= to}

BoxWraps(c) == NumberOf(c.top_right_point[2]) < NumberOf(c.bottom_left_point[2])

\* the documents inside the box, from their coordinates
DocsInBox(c) ==
    LET top_lat == NumberOf(c.top_right_point[1])
        top_lng == NumberOf(c.top_right_point[2])
        bottom_lat == NumberOf(c.bottom_left_point[1])
        bottom_lng == NumberOf(c.bottom_left_point[2])
    IN DocsWithin("_geo.lat", bottom_lat, top_lat)
       \cap (IF top_lng >= bottom_lng
             THEN DocsWithin("_geo.lng", bottom_lng, top_lng)
             ELSE DocsWithin("_geo.lng", bottom_lng, 180)
                  \cup DocsWithin("_geo.lng", -180, top_lng))

\* the documents a wrapping box leaves out: their longitude lies strictly
\* between the top-right and the bottom-left longitude
DocsBetweenCorners(c) ==
    {d \in DOMAIN documents :
        \E x \in documents[d]["_geo.lng"].numbers :
            NumberOf(c.top_right_point[2]) < x /\ x < NumberOf(c.bottom_left_point[2])}

\* the first rule whose pattern matches the field grants the comparison
\* operators
GrantsComparison(field) ==
    \E i \in 1..Len(filterable_attributes_rules) :
        /\ filterable_attributes_rules[i].pattern \in {field, "_geo"}
        /\ filterable_attributes_rules[i].features.comparison
        /\ \A j \in 1..(i - 1) :
               filterable_attributes_rules[j].pattern \notin {field, "_geo"}

RangesAllowed == GrantsComparison("_geo.lat") /\ GrantsComparison("_geo.lng")

\* C26 as stated: on every geo-enabled index, a bounding box with valid
\* corners returns the documents whose latitude lies in [bottom.lat, top.lat]
\* and whose longitude lies in [bottom.lng, top.lng], or, when
\* top.lng < bottom.lng, in [bottom.lng, 180] or [-180, top.lng]
C26_BoundingBoxIsLatAndLngRanges ==
    (NodeEvaluated /\ GeoEnabled /\ IsValidBox(call.arg)) =>
        /\ call.result.ok
        /\ call.result.bitmap = DocsInBox(call.arg)
        /\ BoxWraps(call.arg) =>
               call.result.bitmap \cap DocsBetweenCorners(call.arg) = {}

\* C26: on a geo-enabled index whose rules grant the comparison operators
\* on _geo.lat and on _geo.lng, a bounding box with valid corners returns
\* the documents whose latitude lies in [bottom.lat, top.lat] and whose
\* longitude lies in [bottom.lng, top.lng], or, when top.lng < bottom.lng,
\* in [bottom.lng, 180] or [-180, top.lng]; a wrapping box returns no
\* document whose longitude lies strictly between top.lng and bottom.lng.
\* On any geo-enabled index a valid box that fails does so with
\* FilterOperatorNotAllowed on the first of _geo.lat, _geo.lng whose rule
\* does not grant comparison.
C26_BoundingBoxIsLatAndLngRangesWhereAllowed ==
    (NodeEvaluated /\ GeoEnabled /\ IsValidBox(call.arg)) =>
        /\ RangesAllowed =>
               /\ call.result.ok
               /\ call.result.bitmap = DocsInBox(call.arg)
               /\ BoxWraps(call.arg) =>
                      call.result.bitmap \cap DocsBetweenCorners(call.arg) = {}
        /\ ~call.result.ok =>
               /\ call.result.error.kind = "FilterOperatorNotAllowed"
               /\ call.result.error.field \in {"_geo.lat", "_geo.lng"}
               /\ ~GrantsComparison(call.result.error.field)
               /\ call.result.error.field = "_geo.lng" =>
                      GrantsComparison("_geo.lat")

\* _geoBoundingBox([90, -160], [-90, 150]) wraps the antimeridian: it finds
\* the document at longitude 170 and leaves out the one at 9
C26_Witness ==
    /\ IsEvaluate
    /\ GeoEnabled
    /\ RangesAllowed
    /\ call.arg = GeoBoundingBox(<<TokenOf(90), TokenOf(-160)>>,
                                 <<TokenOf(-90), TokenOf(150)>>)
    /\ \E d \in DOMAIN documents : documents[d] = GeoDoc(45, 9)
    /\ \E d \in call.result.bitmap : documents[d] = GeoDoc(10, 170)
    /\ call.result.bitmap \cap DocsBetweenCorners(call.arg) = {}
    /\ DocsBetweenCorners(call.arg) # {}

\* _geoBoundingBox([90, 10], [45, -5]) does not wrap: it finds the document
\* at (45, 9) and no other
C26_WitnessPlain ==
    /\ IsEvaluate
    /\ GeoEnabled
    /\ call.arg = GeoBoundingBox(<<TokenOf(90), TokenOf(10)>>,
                                 <<TokenOf(45), TokenOf(-5)>>)
    /\ \E d \in DOMAIN documents : documents[d] = GeoDoc(10, 170)
    /\ call.result.bitmap # {}
    /\ \A d \in call.result.bitmap : documents[d] = GeoDoc(45, 9)

\* _geoBoundingBox([90, 10], [45, -5]) on rules that give _geo.lng equality
\* alone: the latitude range has been scanned when the longitude range is
\* refused
C26_WitnessLngNotAllowed ==
    /\ IsEvaluate
    /\ GeoEnabled
    /\ ~GrantsComparison("_geo.lng")
    /\ call.arg = GeoBoundingBox(<<TokenOf(90), TokenOf(10)>>,
                                 <<TokenOf(45), TokenOf(-5)>>)
    /\ \E d \in DOMAIN documents : documents[d] = GeoDoc(45, 9)
    /\ ~call.result.ok
    /\ call.result.error.kind = "FilterOperatorNotAllowed"
    /\ call.result.error.field = "_geo.lng"
    /\ FacetStores \subseteq call.result.reads


(***************************************************************************)
(* C27                                                                     *)
(***************************************************************************)
\* the entries pass 1 inserts into the word_fid_docids sorter, in order
Pass1Sorter == word_fid_docids_of(call.arg.docid_word_positions, 1, {}, {}, <<>>).sorter

\* the words of one side of a record
PayloadWords(side) == {side.words[i].word : i \in 1..Len(side.words)}

FieldOf(record) == from_be_bytes(SubSeq(record.key, 5, 6))

\* the entry of a word of the record (d, f) with the Deletion words dels and
\* the Addition words adds: keyed word, 0, f, with d on the sides whose
\* payload holds the word
EntryOfWord(d, f, dels, adds, word) ==
    Entry(word \o <<0>> \o to_be_bytes(f, 2),
          DelAddOf(IF word \in dels THEN SomeDocids({d}) ELSE NoDocids,
                   IF word \in adds THEN SomeDocids({d}) ELSE NoDocids))

\* from the i-th record on, the entries of the sorter from the index first
\* on are those of the words of the records, record after record
RECURSIVE EntriesAreOfRecords(_, _, _, _)
EntriesAreOfRecords(records, i, first, sorter) ==
    IF i > Len(records) THEN first = Len(sorter) + 1
    ELSE \A dels \in {PayloadWords(records[i].value.deletion)},
            adds \in {PayloadWords(records[i].value.addition)},
            d \in {DocumentOf(records[i])}, f \in {FieldOf(records[i])} :
             \A last \in {first + Cardinality(dels \cup adds) - 1} :
                 /\ last <= Len(sorter)
                 /\ {sorter[k] : k \in first..last}
                        = {EntryOfWord(d, f, dels, adds, word) : word \in dels \cup adds}
                 /\ EntriesAreOfRecords(records, i + 1, last + 1, sorter)

\* C27: pass 1 of extract_word_docids inserts, for every input record
\* (d, f), exactly one entry per distinct word of its Deletion and Addition
\* payloads, keyed word, 0, f, with the Deletion side present exactly when
\* the word is in the Deletion payload and the Addition side exactly when
\* it is in the Addition payload, both sides carrying d alone; no word of
\* an earlier record is among the entries of a later record.
C27_OneEntryPerWordOfTheRecord ==
    IsWords =>
        EntriesAreOfRecords(call.arg.docid_word_positions, 1, 1, Pass1Sorter)

\* document 0 loses b in field 0 and gains a in field 1: the record of
\* field 0 gives a with both sides and b as a Deletion, the record of
\* field 1 gives a as an Addition and nothing for b
C27_Witness ==
    /\ IsWords
    /\ call.arg.docid_word_positions =
           <<Record(0, 0, SomeWords(<<At(0, Sa), At(1, Sb)>>), SomeWords(<<At(0, Sa)>>)),
             Record(0, 1, NoWords, SomeWords(<<At(0, Sa)>>))>>
    /\ Pass1Sorter =
           <<Entry(Sa \o <<0, 0, 0>>, DelAddOf(SomeDocids({0}), SomeDocids({0}))),
             Entry(Sb \o <<0, 0, 0>>, DelAddOf(SomeDocids({0}), NoDocids)),
             Entry(Sa \o <<0, 0, 1>>, DelAddOf(NoDocids, SomeDocids({0})))>>


(***************************************************************************)
(* C28                                                                     *)
(***************************************************************************)
\* the settings that route a side: the old ones the Deletion side, the new
\* ones the Addition side
SettingsOfSide(side) ==
    IF side = "Deletion" THEN call.arg.settings_diff.old ELSE call.arg.settings_diff.new

\* the fid is an exact attribute or the word a disabled-typos term
IsExactUnder(settings, word, fid) ==
    fid \in settings.exact_attributes \/ word \in settings.exact_words

\* the input records, each with its document, its field and the words of
\* its two payloads
RecordsRead ==
    {[document |-> DocumentOf(call.arg.docid_word_positions[i]),
      fid |-> FieldOf(call.arg.docid_word_positions[i]),
      unchanged |-> call.arg.docid_word_positions[i].value.deletion
                        = call.arg.docid_word_positions[i].value.addition,
      Deletion |-> PayloadWords(call.arg.docid_word_positions[i].value.deletion),
      Addition |-> PayloadWords(call.arg.docid_word_positions[i].value.addition)]
        : i \in 1..Len(call.arg.docid_word_positions)}

\* the documents of the records that hold the word on the side, in a field
\* that sends it to the exact stream (exact = TRUE) or to the normal stream
\* under the settings of the side
RoutedDocs(records, side, word, exact) ==
    {record.document :
        record \in {r \in records :
                       /\ word \in r[side]
                       /\ IsExactUnder(SettingsOfSide(side), word, r.fid) = exact}}

\* the records of a document that does not change, with a word that the
\* old and the new settings send to different streams
FlippedWords(records) ==
    {flipped \in records \X ExtractWords :
        /\ flipped[1].unchanged
        /\ flipped[2] \in flipped[1].Deletion
        /\ IsExactUnder(call.arg.settings_diff.old, flipped[2], flipped[1].fid)
               # IsExactUnder(call.arg.settings_diff.new, flipped[2], flipped[1].fid)}

\* C28: when it returns its streams, pass 2 of extract_word_docids sends
\* the Deletion side of a (word, fid) record to the exact stream exactly when the fid is an exact
\* attribute or the word a disabled-typos term under the old settings, and
\* the Addition side exactly when that holds under the new settings, and to
\* the normal stream otherwise; when a setting flips for a document that
\* does not change, its id is a Deletion of the word in one stream and an
\* Addition in the other.
C28_SidesAreRoutedByOldAndNewSettings ==
    WordsExtracted =>
        \A records \in {RecordsRead} :
            /\ \A word \in ExtractWords, exact \in BOOLEAN, side \in SideNames :
                   SideOf(StreamOf(exact), word, side)
                       = RoutedDocs(records, side, word, exact)
            /\ \A flipped \in FlippedWords(records) :
                   \A was_exact \in {IsExactUnder(call.arg.settings_diff.old,
                                                  flipped[2], flipped[1].fid)} :
                       /\ flipped[1].document
                              \in SideOf(StreamOf(was_exact), flipped[2], "Deletion")
                       /\ flipped[1].document
                              \in SideOf(StreamOf(~was_exact), flipped[2], "Addition")

\* a becomes a disabled-typos term while no document changes: document 0
\* leaves the normal stream of a and enters the exact stream
C28_Witness ==
    /\ IsWords
    /\ call.arg.settings_diff.old = Settings({}, {}, "ByWord")
    /\ call.arg.settings_diff.new = Settings({}, {Sa}, "ByWord")
    /\ call.arg.new = call.arg.old
    /\ call.arg.old[0] = Fields(<<At(0, Sa), At(1, Sb)>>, <<>>)
    /\ FlippedWords(RecordsRead) # {}
    /\ 0 \in SideOf(call.result.streams.word_docids, Sa, "Deletion")
    /\ 0 \in SideOf(call.result.streams.exact_word_docids, Sa, "Addition")
    /\ 0 \notin SideOf(call.result.streams.exact_word_docids, Sa, "Deletion")
    /\ 0 \notin SideOf(call.result.streams.word_docids, Sa, "Addition")
    /\ 0 \in SideOf(call.result.streams.word_docids, Sb, "Deletion")
    /\ 0 \in SideOf(call.result.streams.word_docids, Sb, "Addition")


(***************************************************************************)
(* C29                                                                     *)
(***************************************************************************)
\* the number of entries of the sorters from the i-th on
RECURSIVE SumOfLens(_, _)
SumOfLens(sorters, i) ==
    IF i > Len(sorters) THEN 0 ELSE Len(sorters[i]) + SumOfLens(sorters, i + 1)

\* the records of a document
RecordsOf(d) ==
    SelectSeq(call.arg.docid_word_positions, LAMBDA record : DocumentOf(record) = d)

\* the state of the loop when the document d is flushed: the maps were
\* cleared at the flush before, and hold what the records of d have added
StateAtFlush(d) ==
    proximity_records(RecordsOf(d), 1, call.arg.settings_diff, ProximityStart)

\* the entries of the sorters, each with the index of its sorter
EntriesOf(sorters) ==
    UNION {{<<i, sorters[i][k]>> : k \in 1..Len(sorters[i])}
              : i \in 1..(MAX_DISTANCE - 1)}

\* the entries the flush of d inserts
Flushed(d) ==
    LET state == StateAtFlush(d)
    IN EntriesOf(document_word_positions_into_sorter(
                     d, state.del.word_pair_proximity,
                     state.add.word_pair_proximity, EmptySorters))

\* the entries the claim gives for the two maps of a document
FlushOfMaps(d, del, add) ==
    {<<del[p], Entry(pair_key(del[p], p[1], p[2]),
                     DelAddOf(SomeDocids({d}),
                              IF p \in DOMAIN add /\ add[p] = del[p]
                              THEN SomeDocids({d}) ELSE NoDocids))>>
        : p \in DOMAIN del}
    \cup {<<add[p], Entry(pair_key(add[p], p[1], p[2]),
                          DelAddOf(NoDocids, SomeDocids({d})))>>
             : p \in {q \in DOMAIN add : q \notin DOMAIN del \/ del[q] # add[q]}}

FlushedDocuments ==
    {d \in ExtractDocIds :
        /\ RecordsOf(d) # <<>>
        /\ ~(call.arg.settings_diff.settings_update_only
                /\ ~call.arg.settings_diff.reindex_proximities)}

\* the stream holds the key of the entry, with the documents of its sides
InStream(entry, stream) ==
    \E k \in 1..Len(stream) :
        /\ stream[k].key = entry.key
        /\ entry.value.deletion.docids \subseteq stream[k].value.deletion.docids
        /\ entry.value.addition.docids \subseteq stream[k].value.addition.docids

\* C29: at a flush of an extraction that returns its stream, every
\* proximity stored in the two maps is in 1..MAX_DISTANCE-1, so it names a sorter; a pair of both maps with one
\* proximity gives one record with both sides; a pair of both maps with two
\* proximities gives a Deletion record under the old and an Addition record
\* under the new proximity; a pair of one map gives a record with that side
\* alone; every side carries the id of the flushed document, and the record
\* goes to the sorter of its proximity; the stream returned holds it.
C29_FlushWritesEachPairUnderItsProximity ==
    PairsExtracted =>
        \A d \in FlushedDocuments :
            \A state \in {StateAtFlush(d)} :
                /\ state.current_document_id = [some |-> TRUE, id |-> d]
                /\ \A del \in {state.del.word_pair_proximity},
                      add \in {state.add.word_pair_proximity} :
                       /\ \A p \in DOMAIN del : del[p] \in 1..(MAX_DISTANCE - 1)
                       /\ \A p \in DOMAIN add : add[p] \in 1..(MAX_DISTANCE - 1)
                       /\ \A sorters \in {document_word_positions_into_sorter(
                                                d, del, add, EmptySorters)},
                             expected \in {FlushOfMaps(d, del, add)} :
                              /\ EntriesOf(sorters) = expected
                              /\ SumOfLens(sorters, 1) = Cardinality(expected)
                              /\ \A flushed \in expected :
                                     InStream(flushed[2], call.result.stream)

\* the flush of document 0 finds the pair (a, b) at proximity 1 before and
\* 2 after the update, the flush of document 1 finds it at 1 on both sides
C29_Witness ==
    /\ IsPairs
    /\ call.arg.settings_diff.old.proximity_precision = "ByWord"
    /\ call.arg.settings_diff.new.proximity_precision = "ByWord"
    /\ call.arg.old = [d \in ExtractDocIds |->
                           Fields(<<At(0, Sa), At(1, Sb), At(3, Sb)>>, <<>>)]
    /\ call.arg.new[0] = Fields(<<At(0, Sa), At(7, Sb), At(8, Sa), At(10, Sb)>>, <<>>)
    /\ call.arg.new[1] = Fields(<<At(0, Sa), At(5, Sb)>>, <<At(0, Sa), At(1, Sb)>>)
    /\ FlushedDocuments = {0, 1}
    /\ StateAtFlush(0).del.word_pair_proximity[<<Sa, Sb>>] = 1
    /\ StateAtFlush(0).add.word_pair_proximity[<<Sa, Sb>>] = 2
    /\ <<Sb, Sa>> \notin DOMAIN StateAtFlush(0).del.word_pair_proximity
    /\ <<1, Entry(pair_key(1, Sa, Sb), DelAddOf(SomeDocids({0}), NoDocids))>>
           \in Flushed(0)
    /\ <<2, Entry(pair_key(2, Sa, Sb), DelAddOf(NoDocids, SomeDocids({0})))>>
           \in Flushed(0)
    /\ <<1, Entry(pair_key(1, Sb, Sa), DelAddOf(NoDocids, SomeDocids({0})))>>
           \in Flushed(0)
    /\ <<1, Entry(pair_key(1, Sa, Sb), DelAddOf(SomeDocids({1}), SomeDocids({1})))>>
           \in Flushed(1)


(***************************************************************************)
(* C30                                                                     *)
(***************************************************************************)
\* the record the two tasks work on
ForkedRecord == call.arg.docid_word_positions[call.result.at]

\* at the join, each side is what its task gives when it runs alone, from
\* the state at the fork, and a task has failed when it fails alone
JoinIsSequential ==
    (Joining /\ call.result.at > 0 /\ BothDone) =>
        /\ \A alone \in {side_task(any_of("Deletion", call.arg.settings_diff),
                                   ForkedRecord.value.deletion,
                                   call.result.forked.del)} :
               /\ call.result.loop.del = alone.state
               /\ (call.result.pc["Deletion"] = "failed") = ~alone.ok
        /\ \A alone \in {side_task(any_of("Addition", call.arg.settings_diff),
                                   ForkedRecord.value.addition,
                                   call.result.forked.add)} :
               /\ call.result.loop.add = alone.state
               /\ (call.result.pc["Addition"] = "failed") = ~alone.ok
        /\ call.result.loop.sorters = call.result.forked.sorters
        /\ call.result.loop.current_document_id = call.result.forked.current_document_id

\* the stream returned is the one of the tasks run one after the other
ReturnIsSequential ==
    call.op = "extract_word_pair_proximity_docids" =>
        call.result = extract_word_pair_proximity_docids(
                          call.arg.docid_word_positions, call.arg.settings_diff)

\* a step of a task writes the window and the map of its own side alone
StepsAreDisjoint ==
    (Joining /\ Joining' /\ ~BothDone) =>
        /\ call'.result.at = call.result.at
        /\ call'.result.forked = call.result.forked
        /\ call'.result.loop.sorters = call.result.loop.sorters
        /\ call'.result.loop.current_document_id = call.result.loop.current_document_id
        /\ \/ /\ call'.result.loop.add = call.result.loop.add
              /\ call'.result.pc["Addition"] = call.result.pc["Addition"]
              /\ call'.result.i["Addition"] = call.result.i["Addition"]
           \/ /\ call'.result.loop.del = call.result.loop.del
              /\ call'.result.pc["Deletion"] = call.result.pc["Deletion"]
              /\ call'.result.i["Deletion"] = call.result.i["Deletion"]

\* the loop reads a record, flushes a document or returns only when both
\* tasks have ended
LoopWaitsForBoth ==
    (Joining /\ (~Joining' \/ call'.result.at # call.result.at
                           \/ call'.result.loop.sorters # call.result.loop.sorters)) =>
        BothDone

\* C30: the deletion task and the addition task forked for a record write
\* disjoint state, so that whatever the interleaving of their steps, the
\* windows and the maps at the join are those of the two tasks run one
\* after the other, and so is the stream returned; both tasks have ended
\* before the next record is read or a document is flushed.
C30_TasksAreIndependentAndJoined ==
    /\ [](JoinIsSequential /\ ReturnIsSequential)
    /\ [][StepsAreDisjoint /\ LoopWaitsForBoth]_vars

\* both tasks are under way on one record: each has inserted a word into
\* its window and has a word left
C30_Witness ==
    /\ Joining
    /\ \A task \in Tasks :
           /\ call.result.pc[task] = "words"
           /\ call.result.i[task] = 2
           /\ Len(payload_of(task, ForkedRecord.value).words) >= 2
           /\ Len(captured_by(task, call.result.loop).word_positions) = 1

\* the join of the second record of a document: both maps hold pairs, and
\* the two sides differ
C30_WitnessJoined ==
    /\ Joining
    /\ BothDone
    /\ call.result.at = 2
    /\ call.result.loop.del.word_pair_proximity # NoPairs
    /\ call.result.loop.add.word_pair_proximity # NoPairs
    /\ call.result.loop.del.word_pair_proximity # call.result.loop.add.word_pair_proximity
    /\ call.result.loop.del.word_positions = <<>>
    /\ call.result.loop.add.word_positions = <<>>

=============================================================================
